---------------------------- MODULE Spec2Model ----------------------------
(***************************************************************************)
(* The Sourcegraph control-plane client of zoekt-sourcegraph-indexserver:  *)
(* sourcegraphClient.List with the iteration pass of its result,           *)
(* sourcegraphClient.ForceIterateIndexOptions, and the filesystem test     *)
(* double sourcegraphFake.                                                 *)
(*                                                                         *)
(* A fingerprint is a natural number: 0 is the empty string of the REST    *)
(* transport and the nil *proto.Fingerprint of the gRPC transport, 1..MaxFP *)
(* are the non-empty fingerprints a server hands out.  Time is counted in  *)
(* units of 10 ms, in which len(indexed) * time.Minute / 500 is exact.     *)
(***************************************************************************)
EXTENDS Integers, Sequences, FiniteSets, TLC

\* ------------------------------------------------------------- bounds
\* The longest ID list the control plane returns or an operator passes.
MaxIDs == 3
\* The number of distinct non-empty fingerprints.
MaxFP == 2
\* The largest configured batch size (0 selects the default).
MaxBatchSize == 2
\* The clock stops after this many minutes.
MaxClock == 8
\* The longest list of already indexed IDs a caller passes to List.
MaxIndexed == 5000
\* The longest ranking file of the test double, in lines.
MaxLines == 2

\* ---------------------------------------------------------- constants
\* time.Minute, in units of 10 ms.
Minute == 6000
\* The batch size used when BatchSize is 0.
DefaultBatchSize == 10000
\* The empty fingerprint: "" (REST) and nil (gRPC).
EmptyFP == 0
\* The indexed repositories that add one minute to the time between resets.
ReposPerMinute == 500
\* Mutant: a new client has a deadline ten minutes after the start.
ZeroTimeLater == 10 * Minute

\* time.Time{}, the deadline of a client as constructed; the clock starts
\* after it.
ZeroTime == 0
\* 1<<31 - 1, the modulus of fakeID.
Modulus == 2147483647
\* 2^16: a uint32 is written <<hi, lo>>, its value being hi * Half + lo.
Half == 65536

VARIABLES
    useGRPC,                 \* sourcegraphClient.useGRPC
    grpcClient,              \* "noop" (noopGRPCClient) or "real"
    BatchSize,               \* sourcegraphClient.BatchSize
    configFingerprint,       \* sourcegraphClient.configFingerprint
    configFingerprintProto,  \* sourcegraphClient.configFingerprintProto
    configFingerprintReset,  \* sourcegraphClient.configFingerprintReset
    now,                     \* time.Now()
    results,                 \* the ID lists of the SourcegraphListResults handed out
    pc,                      \* "idle", "iterate" or "force": the client's running pass;
                             \* "fake": the program runs on the test double,
                             \* "nop": on a sourcegraphNop; "panicked": it has
                             \* ended in a panic
    repos,                   \* the ID list the running pass works on
    k,                       \* the number of the next batch of the running pass
    startingFingerPrint,     \* closure variable of mkGetIndexOptionsFunc
    first,                   \* closure variable of mkGetIndexOptionsFunc
    fpAtStart,               \* history: the stored fingerprint when the pass started
    firstNext,               \* history: <<fp>>, the fingerprint a successful first
                             \* batch returned
    failed,                  \* history: some batch of the running pass, or of the last
                             \* one, failed at the transport
    issued,                  \* history: the transport calls the pass has issued
    req,                     \* history: the last request to the control plane, and
                             \* the operation that made it
    resp,                    \* history: the response to it
    called,                  \* history: the callbacks invoked for that response
    lastReset,               \* history: <<r>>, the reset of the fingerprint List made,
                             \* until an iteration pass requests its first batch
    ret,                     \* history: what the last call on the client returned
    retained,                \* history, kept under SpecRetained only: the results the
                             \* caller holds, each with the fingerprint stored when it
                             \* was built
    controlPlane,            \* under SpecSync: the control plane's clock and one
                             \* repository's configuration, with what the consumer got;
                             \* under SpecResync: an unchanged configuration, with
                             \* what the passes delivered; under SpecFakeID: a
                             \* repository of the test double's directory
    peer                     \* under SpecPeers only: the state of a second client

vars == <<useGRPC, grpcClient, BatchSize, configFingerprint, configFingerprintProto,
          configFingerprintReset, now, results, pc, repos, k, startingFingerPrint,
          first, fpAtStart, firstNext, failed, issued, req, resp, called,
          lastReset, ret, retained, controlPlane, peer>>

client == <<useGRPC, grpcClient, BatchSize>>
fingerprintState == <<configFingerprint, configFingerprintProto, configFingerprintReset>>
closure == <<startingFingerPrint, first>>
history == <<fpAtStart, firstNext, failed, issued, req, resp, called>>
\* What the specifications of single claims keep beside the client.
aside == <<retained, controlPlane, peer>>

\* ------------------------------------------------------------ helpers
Min(a, b) == IF a < b THEN a ELSE b

Max(a, b) == IF a < b THEN b ELSE a

\* The ID list 1, 2, ..., n.
IDList(n) == [i \in 1..n |-> i]

\* The ID lists of the model: the empty one and the longest.
IDLists == {IDList(0), IDList(MaxIDs)}

Fingerprints == 0..MaxFP

NoRequest == [by |-> "none", transport |-> "none", fingerprint |-> EmptyFP, repos |-> <<>>]

NoResponse == [err |-> FALSE, items |-> <<>>, fingerprint |-> EmptyFP]

\* The fingerprint the active transport's field holds.
StoredFP == IF useGRPC THEN configFingerprintProto ELSE configFingerprint

\* -------------------------------------------------------------- batching
\* batched(slice, size): the consecutive chunks of slice, each of size
\* elements but the last.
batched(slice, size) ==
    [i \in 1..((Len(slice) + size - 1) \div size) |->
        SubSeq(slice, (i - 1) * size + 1, Min(i * size, Len(slice)))]

\* Mutant: a BatchSize of 0 is not replaced by the default.
batchSizeNoDefault == IF BatchSize = 0 THEN 1 ELSE BatchSize

\* batchSize := s.BatchSize; if batchSize == 0 { batchSize = 10_000 }
batchSize == IF BatchSize = 0 THEN DefaultBatchSize ELSE BatchSize

batches == batched(repos, batchSize)

\* ------------------------------------------------------------ transport
\* The transport the client was constructed with.
Transport == IF useGRPC THEN "GRPC" ELSE "REST"

\* Mutant: the client that stands in for a missing gRPC client answers like a
\* real one.
DisabledNever == FALSE

\* noopGRPCClient fails every call with "grpc client not enabled".
Disabled == useGRPC /\ grpcClient = "noop"

\* What the control plane answers for one ID of a batch: nothing (the
\* repository is unchanged or unknown), its options, an error that names the
\* repository, or an error whose item carries no repository ID.
Outcomes == {"none", "options", "error", "errorNoID"}

\* The items of a response, in the order of the request: an item is the
\* repository ID of its IndexOptions and its error string.
RECURSIVE Answer(_, _, _)
Answer(batch, o, i) ==
    IF i > Len(batch) THEN <<>>
    ELSE (CASE o[i] = "none" -> <<>>
            [] o[i] = "options" -> <<[RepoID |-> batch[i], Error |-> ""]>>
            [] o[i] = "error" -> <<[RepoID |-> batch[i], Error |-> "err"]>>
            [] OTHER -> <<[RepoID |-> 0, Error |-> "err"]>>)
         \o Answer(batch, o, i + 1)

Answers(batch) == {Answer(batch, o, 1) : o \in [1..Len(batch) -> Outcomes]}

\* What getIndexOptionsREST / getIndexOptionsGRPC can return for a batch:
\* an error, or items with the response's fingerprint.
Responses(batch) ==
    {[err |-> TRUE, items |-> <<>>, fingerprint |-> EmptyFP]}
    \cup (IF Disabled THEN {}
          ELSE [err : {FALSE}, items : Answers(batch), fingerprint : Fingerprints])

\* What listRepoIDs can return: an error, or the authoritative ID list.
ListResponses ==
    {[err |-> TRUE, repos |-> <<>>]}
    \cup (IF Disabled THEN {} ELSE [err : {FALSE}, repos : IDLists])

\* Mutant: the batch is requested with the fingerprint stored at that moment.
IterateRequestStored(batch) ==
    [by |-> "iterate", transport |-> Transport, fingerprint |-> StoredFP, repos |-> batch]

\* The request of one batch of an iteration pass:
\* s.getIndexOptionsREST(startingFingerPrint, repos...)
IterateRequest(batch) ==
    [by |-> "iterate", transport |-> Transport, fingerprint |-> startingFingerPrint,
     repos |-> batch]

\* Mutant: the forced request carries the stored fingerprint.
ForceRequestStored(batch) ==
    [by |-> "force", transport |-> Transport, fingerprint |-> StoredFP, repos |-> batch]

\* The request of one batch of ForceIterateIndexOptions:
\* s.getIndexOptionsREST("", repos...) / s.getIndexOptionsGRPC(ctx, nil, repos)
ForceRequest(batch) ==
    [by |-> "force", transport |-> Transport, fingerprint |-> EmptyFP, repos |-> batch]

\* Mutant: listRepoIDs always takes the REST endpoint.
ListRequestREST ==
    [by |-> "list", transport |-> "REST", fingerprint |-> EmptyFP, repos |-> <<>>]

\* The call of listRepoIDs: listRepoIDsGRPC if s.useGRPC, else listRepoIDsREST.
ListRequest ==
    [by |-> "list", transport |-> IF useGRPC THEN "GRPC" ELSE "REST",
     fingerprint |-> EmptyFP, repos |-> <<>>]

\* The call of GetDocumentRanks: getDocumentRanksGRPC if s.useGRPC, else
\* getDocumentRanksREST.
RanksRequest ==
    [by |-> "ranks", transport |-> IF useGRPC THEN "GRPC" ELSE "REST",
     fingerprint |-> EmptyFP, repos |-> <<>>]

\* The call of UpdateIndexStatus: updateIndexStatusGRPC if s.useGRPC, else
\* updateIndexStatusREST.
StatusRequest ==
    [by |-> "status", transport |-> IF useGRPC THEN "GRPC" ELSE "REST",
     fingerprint |-> EmptyFP, repos |-> <<>>]

\* ------------------------------------------------------ what calls return
\* No call has returned since the running one began.
NoReturn == [op |-> "none", err |-> FALSE, result |-> <<>>]

\* List returns (nil, err) when listRepoIDs fails, else the result with the
\* IDs and no error.
ListReturn(lr) ==
    IF lr.err THEN [op |-> "List", err |-> TRUE, result |-> <<>>]
    ELSE [op |-> "List", err |-> FALSE, result |-> <<lr.repos>>]

\* Mutant: an iteration pass with a failed batch reports it to its caller.
IterateResultFailed == [op |-> "IterateIndexOptions", err |-> failed, result |-> <<>>]

\* IterateIndexOptions is a func(func(IndexOptions)): it returns nothing.
IterateResult == [op |-> "IterateIndexOptions", err |-> FALSE, result |-> <<>>]

\* ------------------------------------------------- the fingerprint reset
\* Mutant: the next reset is not held at five minutes or more.
NextResetNoMin(n) == (n * Minute) \div ReposPerMinute

\* next := time.Duration(len(indexed)) * time.Minute / 500, at least 5 minutes.
NextReset(n) == Max((n * Minute) \div ReposPerMinute, 5 * Minute)

\* rand.Int63n(int64(next) / 4): the smallest and the largest jitter.
Jitters(next) == {0, next \div 4 - 1}

IndexedLens == {0, MaxIndexed}

\* Mutant: List clears the fingerprints and sets the next deadline at every
\* call.
resetFingerprintAlways(n, jitter) ==
    /\ configFingerprintReset' = now + NextReset(n) + jitter
    /\ configFingerprintProto' = EmptyFP
    /\ configFingerprint' = EmptyFP
    /\ lastReset' = <<[indexed |-> n, next |-> NextReset(n) + jitter,
                        cleared |-> StoredFP]>>

\* Mutant: past the deadline List sets the next deadline and keeps the
\* fingerprints.
resetFingerprintKeep(n, jitter) ==
    IF now > configFingerprintReset
    THEN /\ configFingerprintReset' = now + NextReset(n) + jitter
         /\ UNCHANGED <<configFingerprint, configFingerprintProto>>
         /\ lastReset' = <<[indexed |-> n, next |-> NextReset(n) + jitter,
                             cleared |-> StoredFP]>>
    ELSE UNCHANGED <<fingerprintState, lastReset>>

\* List, lines 278-291: past the deadline, clear both fingerprints and set
\* the next deadline.
resetFingerprint(n, jitter) ==
    IF now > configFingerprintReset
    THEN /\ configFingerprintReset' = now + NextReset(n) + jitter
         /\ configFingerprintProto' = EmptyFP
         /\ configFingerprint' = EmptyFP
         /\ lastReset' = <<[indexed |-> n, next |-> NextReset(n) + jitter,
                             cleared |-> StoredFP]>>
    ELSE UNCHANGED <<fingerprintState, lastReset>>

\* ------------------------------------------- the resolution closure of List
\* Mutant: the closure is built with the result, by List.
mkGetIndexOptionsFuncAtList ==
    /\ \E r \in retained : r.IDs = repos' /\ startingFingerPrint' = r.built
    /\ first' = TRUE

\* mkGetIndexOptionsFunc: the closure's variables when iterate builds it.
mkGetIndexOptionsFunc ==
    /\ startingFingerPrint' = StoredFP
    /\ first' = TRUE

\* Mutant: the fingerprint of every successful batch is stored.
getIndexOptionsFuncRESTEachBatch(r) ==
    /\ IF r.err
       THEN first' = FALSE /\ configFingerprint' = startingFingerPrint
       ELSE first' = FALSE /\ configFingerprint' = r.fingerprint
    /\ UNCHANGED configFingerprintProto

\* Mutant: a failed batch leaves `first` set.
getIndexOptionsFuncRESTKeepFirst(r) ==
    /\ IF r.err
       THEN first' = first /\ configFingerprint' = startingFingerPrint
       ELSE IF first
            THEN first' = FALSE /\ configFingerprint' = r.fingerprint
            ELSE UNCHANGED <<first, configFingerprint>>
    /\ UNCHANGED configFingerprintProto

\* Mutant: a first batch with an item that carries an error does not store
\* its fingerprint.
getIndexOptionsFuncRESTHoldOnItemError(r) ==
    /\ IF r.err
       THEN first' = FALSE /\ configFingerprint' = startingFingerPrint
       ELSE IF first /\ \A i \in 1..Len(r.items) : r.items[i].Error = ""
            THEN first' = FALSE /\ configFingerprint' = r.fingerprint
            ELSE first' = FALSE /\ UNCHANGED configFingerprint
    /\ UNCHANGED configFingerprintProto

\* The REST closure on the transport's answer r, lines 308-325.
getIndexOptionsFuncREST(r) ==
    /\ IF r.err
       THEN first' = FALSE /\ configFingerprint' = startingFingerPrint
       ELSE IF first
            THEN first' = FALSE /\ configFingerprint' = r.fingerprint
            ELSE UNCHANGED <<first, configFingerprint>>
    /\ UNCHANGED configFingerprintProto

\* Mutant: a failed batch does not restore the starting fingerprint.
getIndexOptionsFuncGRPCNoRestore(r) ==
    /\ IF r.err
       THEN first' = FALSE /\ UNCHANGED configFingerprintProto
       ELSE IF first
            THEN first' = FALSE /\ configFingerprintProto' = r.fingerprint
            ELSE UNCHANGED <<first, configFingerprintProto>>
    /\ UNCHANGED configFingerprint

\* Mutant: the fingerprint of every successful batch is stored.
getIndexOptionsFuncGRPCEachBatch(r) ==
    /\ IF r.err
       THEN first' = FALSE /\ configFingerprintProto' = startingFingerPrint
       ELSE first' = FALSE /\ configFingerprintProto' = r.fingerprint
    /\ UNCHANGED configFingerprint

\* The gRPC closure on the transport's answer r, lines 335-351.
getIndexOptionsFuncGRPC(r) ==
    /\ IF r.err
       THEN first' = FALSE /\ configFingerprintProto' = startingFingerPrint
       ELSE IF first
            THEN first' = FALSE /\ configFingerprintProto' = r.fingerprint
            ELSE UNCHANGED <<first, configFingerprintProto>>
    /\ UNCHANGED configFingerprint

\* Mutant: iterate builds the closure of the transport that is not selected.
getIndexOptionsFuncOther(r) ==
    IF useGRPC THEN getIndexOptionsFuncREST(r) ELSE getIndexOptionsFuncGRPC(r)

getIndexOptionsFunc(r) ==
    IF useGRPC THEN getIndexOptionsFuncGRPC(r) ELSE getIndexOptionsFuncREST(r)

\* ------------------------------------------------------------ callbacks
Call(fn, id, err) == [fn |-> fn, id |-> id, err |-> err]

\* Mutant: the first item with an error ends the loop over the items.
RECURSIVE IterateItemsBreak(_)
IterateItemsBreak(options) ==
    IF options = <<>> \/ Head(options).Error # "" THEN <<>>
    ELSE <<Call("f", Head(options).RepoID, "")>> \o IterateItemsBreak(Tail(options))

\* iterate, lines 383-394: f(o.IndexOptions) for every item without error.
RECURSIVE IterateItems(_)
IterateItems(options) ==
    IF options = <<>> THEN <<>>
    ELSE (IF Head(options).Error # "" THEN <<>>
          ELSE <<Call("f", Head(options).RepoID, "")>>)
         \o IterateItems(Tail(options))

\* iterate, lines 370-394: a failed batch invokes nothing.
IterateCallbacks(r) == IF r.err THEN <<>> ELSE IterateItems(r.items)

\* Mutant: a failed batch ends the pass.
IterateNextAbort(r) == IF r.err THEN Len(batches) + 1 ELSE k + 1

\* Mutant: a failed batch is requested again.
IterateNextRetry(r) == IF r.err THEN k ELSE k + 1

\* iterate, lines 373-379: `continue` goes on with the next batch.
IterateNext(r) == k + 1

\* Mutant: the errors of a response are reported after its successes.
ForceItemsErrorsLast(opts) ==
    LET ok == SelectSeq(opts, LAMBDA o : o.Error = "")
        bad == SelectSeq(opts, LAMBDA o : o.RepoID > 0 /\ o.Error # "")
    IN  [i \in 1..Len(ok) |-> Call("onSuccess", ok[i].RepoID, "")]
        \o [i \in 1..Len(bad) |-> Call("onError", bad[i].RepoID, bad[i].Error)]

\* ForceIterateIndexOptions, lines 430-437, and the test double's 895-902.
RECURSIVE ForceItems(_)
ForceItems(opts) ==
    IF opts = <<>> THEN <<>>
    ELSE LET o == Head(opts) IN
         (IF o.RepoID > 0 /\ o.Error # ""
          THEN <<Call("onError", o.RepoID, o.Error)>> ELSE <<>>)
         \o (IF o.Error = "" THEN <<Call("onSuccess", o.RepoID, "")>> ELSE <<>>)
         \o ForceItems(Tail(opts))

\* Mutant: a failed batch reports its first ID only.
ForceCallbacksFirstOnly(batch, r) ==
    IF r.err
    THEN <<Call("onError", batch[1], "transport")>>
    ELSE ForceItems(r.items)

\* ForceIterateIndexOptions, lines 423-437: a failed batch routes every ID of
\* the batch to onError.
ForceCallbacks(batch, r) ==
    IF r.err
    THEN [i \in 1..Len(batch) |-> Call("onError", batch[i], "transport")]
    ELSE ForceItems(r.items)

\* ForceIterateIndexOptions, lines 424-429: `continue`.
ForceNext(r) == k + 1

\* ------------------------------------------------------- the test double
\* A scanned directory: for each ID, no repository, a repository whose options
\* resolve, or one whose branches do not resolve.
Disks == [1..MaxIDs -> {"absent", "ok", "broken"}]

\* reposIdx[id]: the last position of id in the request.
reposIdx(rs, id) ==
    LET at == {i \in 1..Len(rs) : rs[i] = id}
    IN  IF at = {} THEN 0 ELSE CHOOSE i \in at : \A j \in at : j <= i

\* Mutant: once a request has been answered, the test double answers with the
\* repositories changed since, that is with none.
FakeGetIndexOptionsChanged(disk, rs) ==
    IF req.by \in {"iterate", "force"} THEN <<>>
    ELSE [i \in 1..Len(rs) |->
        IF rs[i] \in DOMAIN disk /\ reposIdx(rs, rs[i]) = i /\ disk[rs[i]] = "ok"
        THEN [RepoID |-> rs[i], Error |-> ""]
        ELSE IF rs[i] \in DOMAIN disk /\ reposIdx(rs, rs[i]) = i /\ disk[rs[i]] = "broken"
        THEN [RepoID |-> 0, Error |-> "err"]
        ELSE [RepoID |-> 0, Error |-> "not found"]]

\* Mutant: a repository whose options do not resolve fails the request.
FakeGetIndexOptionsFailAll(disk, rs) ==
    IF \E i \in 1..Len(rs) : rs[i] \in DOMAIN disk /\ disk[rs[i]] = "broken"
    THEN <<>>
    ELSE [i \in 1..Len(rs) |->
        IF rs[i] \in DOMAIN disk /\ reposIdx(rs, rs[i]) = i /\ disk[rs[i]] = "ok"
           /\ rs[i] # 0
        THEN [RepoID |-> rs[i], Error |-> ""]
        ELSE [RepoID |-> 0, Error |-> "not found"]]

\* sourcegraphFake.GetIndexOptions: one item per position of the request.  An
\* item is written at reposIdx[id] only, and an item without error whose
\* RepoID is 0 is turned into "not found".
FakeGetIndexOptions(disk, rs) ==
    [i \in 1..Len(rs) |->
        IF rs[i] \in DOMAIN disk /\ reposIdx(rs, rs[i]) = i /\ disk[rs[i]] = "ok"
           /\ rs[i] # 0
        THEN [RepoID |-> rs[i], Error |-> ""]
        ELSE IF rs[i] \in DOMAIN disk /\ reposIdx(rs, rs[i]) = i /\ disk[rs[i]] = "broken"
        THEN [RepoID |-> 0, Error |-> "err"]
        ELSE [RepoID |-> 0, Error |-> "not found"]]

\* ----------------------------------------------------------- the ranks
\* RepoPathRanks{}: mean rank 0 and no path.  A mean rank is "0", "NaN" or
\* some other number, "r".
EmptyRanks == [MeanRank |-> "0", Paths |-> {}]

\* What the control plane sends for a repository: no ranks or some.
RankBodies == {EmptyRanks, [MeanRank |-> "r", Paths |-> {"p"}]}

\* What getDocumentRanksREST / getDocumentRanksGRPC return: an error of the
\* transport (or of the decoding) with RepoPathRanks{}, or the ranks sent.
RankAnswers ==
    {[err |-> TRUE, ranks |-> EmptyRanks]}
    \cup (IF Disabled THEN {} ELSE [err : {FALSE}, ranks : RankBodies])

\* The lines of a file SG_DOCUMENT_RANKS: path, tab and a float ("rank"),
\* path, tab and something else ("text"), or a line without a tab ("notab").
RankLines == {"rank", "text", "notab"}

\* The files: none, or one of up to MaxLines lines.
RankFiles ==
    {[exists |-> FALSE, lines |-> <<>>]}
    \cup {[exists |-> TRUE, lines |-> l] :
             l \in UNION {[1..n -> RankLines] : n \in 0..MaxLines}}

\* sourcegraphFake.GetDocumentRanks on the file: os.Open fails when there is
\* none; pathRanks[1] panics on a line without a tab, and the assignment to
\* ranks.Paths, a nil map, panics on the first line whose rank parses; else
\* no line has counted and the mean rank is 0.0 / 0, NaN.
FakeRanks(file) ==
    IF ~file.exists
    THEN [panic |-> FALSE, err |-> TRUE, ranks |-> EmptyRanks]
    ELSE IF \E i \in 1..Len(file.lines) : file.lines[i] \in {"rank", "notab"}
    THEN [panic |-> TRUE, err |-> FALSE, ranks |-> EmptyRanks]
    ELSE [panic |-> FALSE, err |-> FALSE, ranks |-> [MeanRank |-> "NaN", Paths |-> {}]]

\* No control plane is followed.
NoPlane ==
    [version |-> 0, watched |-> 0, changed |-> 0, delivered |-> 0, errored |-> 0,
     due |-> 0, dirty |-> FALSE]

\* --------------------------------------------------------------- actions
NoPass ==
    /\ repos' = <<>>
    /\ k' = 1
    /\ startingFingerPrint' = EmptyFP
    /\ first' = TRUE
    /\ fpAtStart' = EmptyFP
    /\ firstNext' = <<>>
    /\ issued' = 0

NoCall ==
    /\ req' = NoRequest
    /\ resp' = NoResponse
    /\ called' = <<>>

\* The program runs on a sourcegraphClient (newSourcegraphClient with its
\* options), on the test double, a sourcegraphFake, or on a sourcegraphNop.
InitProgram ==
    /\ pc \in {"idle", "fake", "nop"}
    /\ useGRPC \in (IF pc = "idle" THEN BOOLEAN ELSE {FALSE})
    /\ grpcClient \in (IF useGRPC THEN {"noop", "real"} ELSE {"noop"})
    /\ BatchSize \in (IF pc = "idle" THEN 0..MaxBatchSize ELSE {0})
    /\ configFingerprint = EmptyFP
    /\ configFingerprintProto = EmptyFP
    /\ configFingerprintReset = ZeroTime
    /\ now = Minute
    /\ results = {}
    /\ repos = <<>>
    /\ k = 1
    /\ startingFingerPrint = EmptyFP
    /\ first = TRUE
    /\ fpAtStart = EmptyFP
    /\ firstNext = <<>>
    /\ failed = FALSE
    /\ issued = 0
    /\ req = NoRequest
    /\ resp = NoResponse
    /\ called = <<>>
    /\ lastReset = <<>>
    /\ ret = NoReturn

Init ==
    /\ InitProgram
    /\ retained = {}
    /\ controlPlane = NoPlane
    /\ peer = <<>>

\* Time passes.  The clock is read by List only, so it moves between calls.
Tick ==
    /\ pc = "idle"
    /\ now + 6 * Minute <= MaxClock * Minute
    /\ now' = now + 6 * Minute
    /\ UNCHANGED <<client, fingerprintState, results, pc, repos, k, closure, history,
                   lastReset, ret, aside>>

\* Mutant: List checks the deadline before it lists the IDs.
ListCallResetFirst(lr, n, jitter) ==
    /\ req' = ListRequest
    /\ resp' = [err |-> lr.err, items |-> <<>>, fingerprint |-> EmptyFP]
    /\ called' = <<>>
    /\ resetFingerprint(n, jitter)
    /\ IF lr.err
       THEN UNCHANGED results
       ELSE results' = results \cup {lr.repos}
    /\ ret' = ListReturn(lr)
    /\ UNCHANGED <<client, now, pc, repos, k, closure, fpAtStart, firstNext, failed, issued>>

\* sourcegraphClient.List(ctx, indexed): lr is what listRepoIDs returns, n is
\* len(indexed), jitter is what rand.Int63n returns.
ListCall(lr, n, jitter) ==
    /\ req' = ListRequest
    /\ resp' = [err |-> lr.err, items |-> <<>>, fingerprint |-> EmptyFP]
    /\ called' = <<>>
    /\ IF lr.err
       THEN UNCHANGED <<fingerprintState, lastReset, results>>
       ELSE /\ results' = results \cup {lr.repos}
            /\ resetFingerprint(n, jitter)
    /\ ret' = ListReturn(lr)
    /\ UNCHANGED <<client, now, pc, repos, k, closure, fpAtStart, firstNext, failed, issued>>

List ==
    /\ pc = "idle"
    /\ \E lr \in ListResponses, n \in IndexedLens :
          \E jitter \in Jitters(NextReset(n)) : ListCall(lr, n, jitter)
    /\ UNCHANGED aside

\* SourcegraphListResult.IterateIndexOptions of a result handed out earlier:
\* the pass starts and builds its closure.
IterateStart ==
    /\ pc = "idle"
    /\ \E r \in results : repos' = r
    /\ pc' = "iterate"
    /\ k' = 1
    /\ mkGetIndexOptionsFunc
    /\ fpAtStart' = StoredFP
    /\ firstNext' = <<>>
    /\ failed' = FALSE
    /\ issued' = 0
    /\ NoCall
    /\ ret' = NoReturn
    /\ UNCHANGED <<client, fingerprintState, now, results, lastReset, aside>>

\* One turn of iterate's loop over the batches, r being what the transport
\* returns.
iterateBatch(r) ==
    /\ req' = IterateRequest(batches[k])
    /\ resp' = r
    /\ getIndexOptionsFunc(r)
    /\ called' = IterateCallbacks(r)
    /\ k' = IterateNext(r)
    /\ failed' = (failed \/ r.err)
    /\ firstNext' = IF k = 1 /\ ~r.err THEN <<r.fingerprint>> ELSE firstNext
    /\ issued' = issued + 1
    /\ lastReset' = <<>>
    /\ UNCHANGED <<client, configFingerprintReset, now, results, pc, repos,
                   startingFingerPrint, fpAtStart, ret>>

IterateBatch ==
    /\ pc = "iterate"
    /\ k <= Len(batches)
    /\ \E r \in Responses(batches[k]) : iterateBatch(r)
    /\ UNCHANGED aside

\* The pass is over.
PassDone == k > Len(batches)

IterateReturn ==
    /\ pc = "iterate"
    /\ PassDone
    /\ pc' = "idle"
    /\ ret' = IterateResult
    /\ NoPass
    /\ NoCall
    /\ UNCHANGED <<client, fingerprintState, now, results, failed, lastReset, aside>>

\* sourcegraphClient.ForceIterateIndexOptions(onSuccess, onError, repos...)
ForceStart ==
    /\ pc = "idle"
    /\ \E rs \in IDLists : repos' = rs
    /\ pc' = "force"
    /\ k' = 1
    /\ fpAtStart' = StoredFP
    /\ firstNext' = <<>>
    /\ failed' = FALSE
    /\ issued' = 0
    /\ NoCall
    /\ ret' = NoReturn
    /\ UNCHANGED <<client, fingerprintState, now, results, closure, lastReset, aside>>

\* One turn of ForceIterateIndexOptions' loop over the batches.
forceBatch(r) ==
    /\ req' = ForceRequest(batches[k])
    /\ resp' = r
    /\ called' = ForceCallbacks(batches[k], r)
    /\ k' = ForceNext(r)
    /\ failed' = (failed \/ r.err)
    /\ issued' = issued + 1
    /\ UNCHANGED <<client, fingerprintState, now, results, pc, repos, closure,
                   fpAtStart, firstNext, lastReset, ret>>

ForceBatch ==
    /\ pc = "force"
    /\ k <= Len(batches)
    /\ \E r \in Responses(batches[k]) : forceBatch(r)
    /\ UNCHANGED aside

ForceReturn ==
    /\ pc = "force"
    /\ PassDone
    /\ pc' = "idle"
    /\ ret' = [op |-> "ForceIterateIndexOptions", err |-> FALSE, result |-> <<>>]
    /\ NoPass
    /\ NoCall
    /\ UNCHANGED <<client, fingerprintState, now, results, failed, lastReset, aside>>

\* sourcegraphClient.GetDocumentRanks: one call of the selected transport,
\* whose error is returned with RepoPathRanks{}, and whose ranks are returned
\* as they came.
GetDocumentRanks ==
    /\ pc = "idle"
    /\ req' = RanksRequest
    /\ \E a \in RankAnswers :
          /\ resp' = [err |-> a.err, items |-> <<>>, fingerprint |-> EmptyFP]
          /\ ret' = [op |-> "GetDocumentRanks", err |-> a.err, result |-> <<a.ranks>>]
    /\ called' = <<>>
    /\ UNCHANGED <<client, fingerprintState, now, results, pc, repos, k, closure,
                   fpAtStart, firstNext, failed, issued, lastReset, aside>>

\* sourcegraphClient.UpdateIndexStatus: one call of the selected transport,
\* whose error is returned.
UpdateIndexStatus ==
    /\ pc = "idle"
    /\ req' = StatusRequest
    /\ \E err \in (IF Disabled THEN {TRUE} ELSE BOOLEAN) :
          /\ resp' = [err |-> err, items |-> <<>>, fingerprint |-> EmptyFP]
          /\ ret' = [op |-> "UpdateIndexStatus", err |-> err, result |-> <<>>]
    /\ called' = <<>>
    /\ UNCHANGED <<client, fingerprintState, now, results, pc, repos, k, closure,
                   fpAtStart, firstNext, failed, issued, lastReset, aside>>

\* sourcegraphFake.GetDocumentRanks: resp.err says that the repository has no
\* ranking file.
FakeGetDocumentRanks ==
    /\ pc = "fake"
    /\ \E file \in RankFiles :
          LET out == FakeRanks(file)
          IN  /\ req' = [by |-> "ranks", transport |-> "fake",
                          fingerprint |-> EmptyFP, repos |-> <<>>]
              /\ resp' = [err |-> ~file.exists, items |-> <<>>, fingerprint |-> EmptyFP]
              /\ pc' = IF out.panic THEN "panicked" ELSE pc
              /\ ret' = IF out.panic THEN NoReturn
                        ELSE [op |-> "GetDocumentRanks", err |-> out.err,
                              result |-> <<out.ranks>>]
    /\ called' = <<>>
    /\ UNCHANGED <<client, fingerprintState, now, results, repos, k, closure,
                   fpAtStart, firstNext, failed, issued, lastReset, aside>>

\* sourcegraphNop.GetDocumentRanks: RepoPathRanks{} and no error, without a
\* request.
NopGetDocumentRanks ==
    /\ pc = "nop"
    /\ NoCall
    /\ ret' = [op |-> "GetDocumentRanks", err |-> FALSE, result |-> <<EmptyRanks>>]
    /\ UNCHANGED <<client, fingerprintState, now, results, pc, repos, k, closure,
                   fpAtStart, firstNext, failed, issued, lastReset, aside>>

\* sourcegraphFake.List: the IDs of the scanned repositories.
FakeList ==
    /\ pc = "fake"
    /\ \E rs \in IDLists :
          /\ results' = results \cup {rs}
          /\ ret' = [op |-> "List", err |-> FALSE, result |-> <<rs>>]
    /\ NoCall
    /\ UNCHANGED <<client, fingerprintState, now, pc, repos, k, closure,
                   fpAtStart, firstNext, failed, issued, lastReset, aside>>

\* The iteration pass of a result of sourcegraphFake.List, lines 867-879.
FakeIterate ==
    /\ pc = "fake"
    /\ \E disk \in Disks, rs \in results :
          LET opts == FakeGetIndexOptions(disk, rs)
          IN  /\ req' = [by |-> "iterate", transport |-> "fake",
                          fingerprint |-> EmptyFP, repos |-> rs]
              /\ resp' = [err |-> FALSE, items |-> opts, fingerprint |-> EmptyFP]
              /\ called' = IterateItems(opts)
    /\ ret' = IterateResult
    /\ UNCHANGED <<client, fingerprintState, now, results, pc, repos, k, closure,
                   fpAtStart, firstNext, failed, issued, lastReset, aside>>

\* sourcegraphFake.ForceIterateIndexOptions: one request for all the IDs.
FakeForceIterateIndexOptions ==
    /\ pc = "fake"
    /\ \E disk \in Disks, rs \in IDLists :
          LET opts == FakeGetIndexOptions(disk, rs)
          IN  /\ req' = [by |-> "force", transport |-> "fake",
                          fingerprint |-> EmptyFP, repos |-> rs]
              /\ resp' = [err |-> FALSE, items |-> opts, fingerprint |-> EmptyFP]
              /\ called' = ForceItems(opts)
    /\ ret' = [op |-> "ForceIterateIndexOptions", err |-> FALSE, result |-> <<>>]
    /\ UNCHANGED <<client, fingerprintState, now, results, pc, repos, k, closure,
                   fpAtStart, firstNext, failed, issued, lastReset, aside>>

\* sourcegraphFake.UpdateIndexStatus: nil, and nothing else.
FakeUpdateIndexStatus ==
    /\ pc = "fake"
    /\ NoCall
    /\ ret' = [op |-> "UpdateIndexStatus", err |-> FALSE, result |-> <<>>]
    /\ UNCHANGED <<client, fingerprintState, now, results, pc, repos, k, closure,
                   fpAtStart, firstNext, failed, issued, lastReset, aside>>

Next ==
    \/ Tick
    \/ List
    \/ IterateStart
    \/ IterateBatch
    \/ IterateReturn
    \/ ForceStart
    \/ ForceBatch
    \/ ForceReturn
    \/ GetDocumentRanks
    \/ UpdateIndexStatus
    \/ FakeGetDocumentRanks
    \/ NopGetDocumentRanks
    \/ FakeList
    \/ FakeIterate
    \/ FakeForceIterateIndexOptions
    \/ FakeUpdateIndexStatus

Spec == Init /\ [][Next]_vars

\* ---------------------------------------- results the caller holds on to
\* The result List returns, with the fingerprint stored as List returns.
Built(ids, fp) == [IDs |-> ids, built |-> fp, latest |-> TRUE]

\* An earlier result the caller still holds after a later call of List.
Earlier(r) == [r EXCEPT !.latest = FALSE]

\* The client of a caller that holds the result of its latest call of List
\* and at most one earlier result.
InitRetained == Init /\ pc = "idle" /\ BatchSize = 0

\* sourcegraphClient.List, and what the caller holds after it.
ListRetained ==
    /\ pc = "idle"
    /\ \E lr \in ListResponses, n \in IndexedLens :
          \E jitter \in Jitters(NextReset(n)) :
             /\ ListCall(lr, n, jitter)
             /\ IF lr.err
                THEN UNCHANGED retained
                ELSE \E kept \in {{}} \cup {{Earlier(r)} : r \in retained} :
                        retained' = kept \cup {Built(lr.repos, StoredFP')}
    /\ UNCHANGED <<controlPlane, peer>>

\* SourcegraphListResult.IterateIndexOptions of a result the caller holds.
IterateRetained ==
    /\ IterateStart
    /\ \E r \in retained : repos' = r.IDs

NextRetained ==
    \/ ListRetained
    \/ IterateRetained
    \/ IterateBatch
    \/ IterateReturn

SpecRetained == InitRetained /\ [][NextRetained]_vars

\* ------------------------------------- a control plane with fingerprints
\* The control plane keeps a clock, version, and hands it out as the
\* fingerprint of a response.  Of the repositories the model follows one,
\* watched: changed is the time of the last change of its configuration,
\* delivered the change the consumer has got, errored the change that was
\* last answered with an error, due the last change made before the first
\* batch of the running pass was answered, and dirty says that a response
\* of the running pass carried an error.
InitSync ==
    /\ InitProgram
    /\ pc = "idle"
    /\ useGRPC => grpcClient = "real"
    /\ retained = {}
    /\ peer = <<>>
    /\ controlPlane \in {[version |-> 1, watched |-> w, changed |-> 1, delivered |-> 0,
                           errored |-> 0, due |-> 0, dirty |-> FALSE] : w \in 1..MaxIDs}

\* The IDs never change: listRepoIDs fails or returns the same list.
ListSync ==
    /\ pc = "idle"
    /\ \E lr \in {[err |-> TRUE, repos |-> <<>>], [err |-> FALSE, repos |-> IDList(MaxIDs)]},
          n \in IndexedLens :
          \E jitter \in Jitters(NextReset(n)) : ListCall(lr, n, jitter)
    /\ UNCHANGED aside

\* The repository is in the request q and has changed since q's fingerprint
\* was handed out.
Changed(q) ==
    /\ \E i \in 1..Len(q.repos) : q.repos[i] = controlPlane.watched
    /\ controlPlane.changed > q.fingerprint

\* The answers to request q: a failure of the transport, or the fingerprint
\* of now with the repository, if it has changed since q's fingerprint:
\* resolved or with an error.
SyncResponses(q) ==
    {[err |-> TRUE, items |-> <<>>, fingerprint |-> EmptyFP]}
    \cup {[err |-> FALSE, items |-> its, fingerprint |-> controlPlane.version] :
             its \in (IF Changed(q)
                      THEN {<<[RepoID |-> controlPlane.watched, Error |-> e]>> : e \in {"", "err"}}
                      ELSE {<<>>})}

\* The control plane's record after the response r of batch number j and the
\* callbacks cs the client made for it.
Synced(j, r, cs) ==
    [controlPlane EXCEPT
        !.delivered = IF \E i \in 1..Len(cs) : cs[i].id = controlPlane.watched
                      THEN controlPlane.changed ELSE @,
        !.errored = IF \E i \in 1..Len(r.items) : r.items[i].Error # ""
                    THEN controlPlane.changed ELSE @,
        !.due = IF j = 1 THEN controlPlane.changed ELSE @,
        !.dirty = (IF j = 1 THEN FALSE ELSE @)
                  \/ (\E i \in 1..Len(r.items) : r.items[i].Error # "")]

\* One turn of iterate's loop, answered by this control plane.
SyncBatch ==
    /\ pc = "iterate"
    /\ k <= Len(batches)
    /\ \E r \in SyncResponses(IterateRequest(batches[k])) :
          /\ iterateBatch(r)
          /\ controlPlane' = Synced(k, r, IterateCallbacks(r))
    /\ UNCHANGED <<retained, peer>>

\* The configuration of the repository changes, at any moment.
Change ==
    /\ controlPlane.version < MaxFP
    /\ controlPlane' = [controlPlane EXCEPT !.version = @ + 1,
                                            !.changed = controlPlane.version + 1]
    /\ UNCHANGED <<client, fingerprintState, now, results, pc, repos, k, closure,
                   history, lastReset, ret, retained, peer>>

\* The control plane's clock moves on without a change of the repository.
Advance ==
    /\ controlPlane.version < MaxFP
    /\ controlPlane' = [controlPlane EXCEPT !.version = @ + 1]
    /\ UNCHANGED <<client, fingerprintState, now, results, pc, repos, k, closure,
                   history, lastReset, ret, retained, peer>>

NextSync ==
    \/ Tick
    \/ ListSync
    \/ IterateStart
    \/ SyncBatch
    \/ IterateReturn
    \/ Change
    \/ Advance

SpecSync == InitSync /\ [][NextSync]_vars

\* ------------------------------ a control plane whose configuration stays
\* The configuration of every repository: its options resolve, or they do not
\* and the item carries an error.
Configs == [1..MaxIDs -> {"options", "error"}]

\* The IDs of the list whose options resolve.
Resolvable(cfg, ids) == {ids[i] : i \in {j \in 1..Len(ids) : cfg[ids[j]] = "options"}}

\* controlPlane holds the configuration, config; got, the IDs the consumer was
\* called for in the running or the last pass; full, the IDs it was called
\* for in the first pass that started from the empty fingerprint and had no
\* failure; and passes, the number of such passes that have ended, up to 2.
InitResync ==
    /\ InitProgram
    /\ pc = "idle"
    /\ useGRPC => grpcClient = "real"
    /\ retained = {}
    /\ peer = <<>>
    /\ controlPlane \in {[config |-> c, got |-> {}, full |-> <<>>, passes |-> 0] :
                           c \in Configs}

\* The answers to request q: a failure of the transport, or, with some
\* fingerprint, every requested repository when q carries no fingerprint and
\* none when it carries one, nothing having changed.
ResyncResponses(q) ==
    {[err |-> TRUE, items |-> <<>>, fingerprint |-> EmptyFP]}
    \cup {[err |-> FALSE,
            items |-> IF q.fingerprint = EmptyFP
                      THEN Answer(q.repos, [i \in 1..Len(q.repos) |->
                                                controlPlane.config[q.repos[i]]], 1)
                      ELSE <<>>,
            fingerprint |-> f] : f \in 1..MaxFP}

\* The record after the callbacks cs of batch number j, which is the last of
\* its pass if last.
Resynced(j, cs, last, clean) ==
    LET got == (IF j = 1 THEN {} ELSE controlPlane.got) \cup {cs[i].id : i \in 1..Len(cs)}
    IN  [controlPlane EXCEPT
            !.got = got,
            !.full = IF last /\ clean /\ @ = <<>> THEN <<got>> ELSE @,
            !.passes = IF last /\ clean /\ @ < 2 THEN @ + 1 ELSE @]

\* One turn of iterate's loop, answered by this control plane.
ResyncBatch ==
    /\ pc = "iterate"
    /\ k <= Len(batches)
    /\ \E r \in ResyncResponses(IterateRequest(batches[k])) :
          /\ iterateBatch(r)
          /\ controlPlane' = Resynced(k, IterateCallbacks(r), k = Len(batches),
                                      fpAtStart = EmptyFP /\ ~failed /\ ~r.err)
    /\ UNCHANGED <<retained, peer>>

NextResync ==
    \/ Tick
    \/ ListSync
    \/ IterateStart
    \/ ResyncBatch
    \/ IterateReturn

SpecResync == InitResync /\ [][NextResync]_vars

\* ------------------------------------------------ the test double's IDs
\* crc32.ChecksumIEEE(name) % (1<<31 - 1), on uint32: with c = b * 2^31 + rest
\* and 2^31 = Modulus + 1, c and b + rest leave the same remainder.
Mod31(c) ==
    LET b == c[1] \div (Half \div 2)
        rest == (c[1] % (Half \div 2)) * Half + c[2]
    IN  ((IF rest = Modulus THEN 0 ELSE rest) + b) % Modulus

\* Mutant: the remainder itself is the ID.
fakeIDNoPlus(c) == Mod31(c)

\* fakeID(name), c being crc32.ChecksumIEEE([]byte(name)).
fakeID(c) == Mod31(c) + 1

\* The checksums of the names: the least and the greatest, and those next to
\* the modulus and its multiples.
Checksums == {0, 1, Half \div 2 - 1, Half \div 2, Half - 1} \X {0, 1, Half - 2, Half - 1}

\* The file SG_ID of a repository: none, an empty one, one that is no
\* number, or a number.
IDFiles ==
    {[kind |-> x, value |-> 0] : x \in {"absent", "empty", "text"}}
    \cup {[kind |-> "number", value |-> v] : v \in {0, 1, MaxIDs, Modulus}}

\* sourcegraphFake.id(name): the number in SG_ID if it parses, else fakeID.
FakeId(dir) ==
    IF dir.SG_ID.kind = "number" THEN dir.SG_ID.value ELSE fakeID(dir.crc)

InitFakeID ==
    /\ InitProgram
    /\ pc = "fake"
    /\ retained = {}
    /\ peer = <<>>
    /\ controlPlane \in {[crc |-> c, SG_ID |-> f, id |-> <<>>] :
                           c \in Checksums, f \in IDFiles}

\* sourcegraphFake.ListRepoIDs visits the repository and appends its ID.
FakeListRepoIDs ==
    /\ pc = "fake"
    /\ controlPlane.id = <<>>
    /\ controlPlane' = [controlPlane EXCEPT !.id = <<FakeId(controlPlane)>>]
    /\ UNCHANGED <<client, fingerprintState, now, results, pc, repos, k, closure,
                   history, lastReset, ret, retained, peer>>

NextFakeID == FakeListRepoIDs

SpecFakeID == InitFakeID /\ [][NextFakeID]_vars

\* --------------------------------------- fingerprints that tell their batch
\* The control plane hands out the odd fingerprints for the first batch of a
\* pass and the even ones for the others, so that a fingerprint tells which
\* batch it was returned for.
FirstFingerprints == {f \in 1..MaxFP : f % 2 = 1}

LaterFingerprints == {f \in 1..MaxFP : f % 2 = 0}

\* The answers to batch number j of an iteration pass.
TaggedResponses(batch, j) ==
    {r \in Responses(batch) :
        r.err \/ r.fingerprint \in (IF j = 1 THEN FirstFingerprints ELSE LaterFingerprints)}

InitTagged == Init /\ pc = "idle"

\* One turn of iterate's loop, answered with such a fingerprint.
TaggedBatch ==
    /\ pc = "iterate"
    /\ k <= Len(batches)
    /\ \E r \in TaggedResponses(batches[k], k) : iterateBatch(r)
    /\ UNCHANGED aside

NextTagged ==
    \/ Tick
    \/ List
    \/ IterateStart
    \/ TaggedBatch
    \/ IterateReturn
    \/ ForceStart
    \/ ForceBatch
    \/ ForceReturn

SpecTagged == InitTagged /\ [][NextTagged]_vars

\* ------------------------------------------------ the first pass of a client
\* The answers to a batch that resolve every ID, and the failure.
PlainResponses(batch) ==
    {r \in Responses(batch) :
        \/ r.err
        \/ /\ Len(r.items) = Len(batch)
           /\ \A i \in 1..Len(r.items) : r.items[i].Error = ""}

\* controlPlane.passes counts the passes that have requested a batch, up to 2.
InitFirst ==
    /\ InitProgram
    /\ pc = "idle"
    /\ retained = {}
    /\ peer = <<>>
    /\ controlPlane = [passes |-> 0]

\* One turn of iterate's loop.
FirstBatch ==
    /\ pc = "iterate"
    /\ k <= Len(batches)
    /\ \E r \in PlainResponses(batches[k]) : iterateBatch(r)
    /\ controlPlane' = [passes |-> IF k = 1 /\ controlPlane.passes < 2
                                    THEN controlPlane.passes + 1
                                    ELSE controlPlane.passes]
    /\ UNCHANGED <<retained, peer>>

NextFirst ==
    \/ Tick
    \/ List
    \/ IterateStart
    \/ FirstBatch
    \/ IterateReturn

SpecFirst == InitFirst /\ [][NextFirst]_vars

\* ------------------------------------------------------ two client instances
\* A second sourcegraphClient.  The variables of the client hold the fields of
\* the instance the next call is made on, peer holds the fields of the other
\* one; the clock is the one thing both read.
Instances == {1, 2}

\* The instance the variables of the client stand for.
active == 3 - peer.id

\* The fields of the instance the next call is made on, set aside as number id.
Parked(id) ==
    [id |-> id, useGRPC |-> useGRPC, grpcClient |-> grpcClient, BatchSize |-> BatchSize,
     configFingerprint |-> configFingerprint,
     configFingerprintProto |-> configFingerprintProto,
     configFingerprintReset |-> configFingerprintReset,
     results |-> results, pc |-> pc, repos |-> repos, k |-> k,
     startingFingerPrint |-> startingFingerPrint, first |-> first,
     fpAtStart |-> fpAtStart, firstNext |-> firstNext, failed |-> failed,
     issued |-> issued, req |-> req, resp |-> resp, called |-> called,
     lastReset |-> lastReset, ret |-> ret]

\* newSourcegraphClient, twice: each instance with its own transport, both
\* with batches of MaxBatchSize IDs.
InitPeers ==
    /\ InitProgram
    /\ pc = "idle"
    /\ useGRPC => grpcClient = "real"
    /\ BatchSize = MaxBatchSize
    /\ retained = {}
    /\ controlPlane = NoPlane
    /\ peer \in {[id |-> 2, useGRPC |-> g, grpcClient |-> IF g THEN "real" ELSE "noop",
                   BatchSize |-> MaxBatchSize,
                   configFingerprint |-> EmptyFP, configFingerprintProto |-> EmptyFP,
                   configFingerprintReset |-> ZeroTime,
                   results |-> {}, pc |-> "idle", repos |-> <<>>, k |-> 1,
                   startingFingerPrint |-> EmptyFP, first |-> TRUE,
                   fpAtStart |-> EmptyFP, firstNext |-> <<>>, failed |-> FALSE,
                   issued |-> 0, req |-> NoRequest, resp |-> NoResponse,
                   called |-> <<>>, lastReset |-> <<>>, ret |-> NoReturn] :
                  g \in BOOLEAN}

\* Mutant: the fingerprints and the deadline are variables of the package,
\* which both instances use.
SwitchSharedFingerprint ==
    /\ useGRPC' = peer.useGRPC
    /\ grpcClient' = peer.grpcClient
    /\ BatchSize' = peer.BatchSize
    /\ results' = peer.results
    /\ pc' = peer.pc
    /\ repos' = peer.repos
    /\ k' = peer.k
    /\ startingFingerPrint' = peer.startingFingerPrint
    /\ first' = peer.first
    /\ fpAtStart' = peer.fpAtStart
    /\ firstNext' = peer.firstNext
    /\ failed' = peer.failed
    /\ issued' = peer.issued
    /\ req' = peer.req
    /\ resp' = peer.resp
    /\ called' = peer.called
    /\ lastReset' = peer.lastReset
    /\ ret' = peer.ret
    /\ peer' = Parked(active)
    /\ UNCHANGED <<fingerprintState, now, retained, controlPlane>>

\* The next call, or the next turn of a running pass, is the other
\* instance's: every field belongs to its struct, so all of them change
\* places.
Switch ==
    /\ useGRPC' = peer.useGRPC
    /\ grpcClient' = peer.grpcClient
    /\ BatchSize' = peer.BatchSize
    /\ configFingerprint' = peer.configFingerprint
    /\ configFingerprintProto' = peer.configFingerprintProto
    /\ configFingerprintReset' = peer.configFingerprintReset
    /\ results' = peer.results
    /\ pc' = peer.pc
    /\ repos' = peer.repos
    /\ k' = peer.k
    /\ startingFingerPrint' = peer.startingFingerPrint
    /\ first' = peer.first
    /\ fpAtStart' = peer.fpAtStart
    /\ firstNext' = peer.firstNext
    /\ failed' = peer.failed
    /\ issued' = peer.issued
    /\ req' = peer.req
    /\ resp' = peer.resp
    /\ called' = peer.called
    /\ lastReset' = peer.lastReset
    /\ ret' = peer.ret
    /\ peer' = Parked(active)
    /\ UNCHANGED <<now, retained, controlPlane>>

\* The fingerprints the control plane hands to instance id: the two
\* instances never get the same one, so that a fingerprint tells whose it is.
OwnFingerprints(id) == {f \in 1..MaxFP : f % 2 = id % 2}

\* len(indexed) in the List calls on instance id: the two instances set
\* different deadlines.
OwnIndexed(id) == IF id = 1 THEN 0 ELSE MaxIndexed

\* The answers to a batch of the active instance: a failure of the transport,
\* or the options of every ID with one of the instance's fingerprints.
PeerResponses(batch) ==
    {r \in Responses(batch) :
        \/ r.err
        \/ /\ r.fingerprint \in OwnFingerprints(active)
           /\ Len(r.items) = Len(batch)
           /\ \A i \in 1..Len(r.items) : r.items[i].Error = ""}

\* List on the active instance: listRepoIDs fails or returns the ID list.
ListPeers ==
    /\ pc = "idle"
    /\ \E lr \in {[err |-> TRUE, repos |-> <<>>], [err |-> FALSE, repos |-> IDList(MaxIDs)]} :
          ListCall(lr, OwnIndexed(active), 0)
    /\ UNCHANGED aside

\* One turn of iterate's loop on the active instance.
IteratePeers ==
    /\ pc = "iterate"
    /\ k <= Len(batches)
    /\ \E r \in PeerResponses(batches[k]) : iterateBatch(r)
    /\ UNCHANGED aside

\* ForceIterateIndexOptions on the active instance, for the whole ID list.
ForceStartPeers ==
    /\ ForceStart
    /\ repos' = IDList(MaxIDs)

\* One turn of ForceIterateIndexOptions' loop on the active instance.
ForcePeers ==
    /\ pc = "force"
    /\ k <= Len(batches)
    /\ \E r \in PeerResponses(batches[k]) : forceBatch(r)
    /\ UNCHANGED aside

NextPeers ==
    \/ Tick
    \/ Switch
    \/ ListPeers
    \/ IterateStart
    \/ IteratePeers
    \/ IterateReturn
    \/ ForceStartPeers
    \/ ForcePeers
    \/ ForceReturn

SpecPeers == InitPeers /\ [][NextPeers]_vars

\* ------------------------------------------- the reset duration by itself
\* The lengths of indexed around the points where the duration changes its
\* shape: none, below and at one minute's worth, around the five minutes'
\* worth, and the longest.
DeadlineLens ==
    {0, 1, ReposPerMinute - 1, ReposPerMinute, 5 * ReposPerMinute - 1,
     5 * ReposPerMinute, 5 * ReposPerMinute + 1, MaxIndexed}

\* rand.Int63n(int64(next) / 4): the smallest, a middle and the largest jitter.
DeadlineJitters(next) == {0, next \div 8, next \div 4 - 1}

InitDeadline == Init /\ pc = "idle"

\* sourcegraphClient.List, called with those lengths of indexed.
ListDeadline ==
    /\ pc = "idle"
    /\ \E lr \in ListResponses, n \in DeadlineLens :
          \E jitter \in DeadlineJitters(NextReset(n)) : ListCall(lr, n, jitter)
    /\ UNCHANGED aside

NextDeadline ==
    \/ Tick
    \/ ListDeadline

\* The client under calls of List alone, as time passes.
SpecDeadline == InitDeadline /\ [][NextDeadline]_vars

\* ---------------------------------------------------------------- claims
\* The running pass is an iteration pass of the client that has made all
\* its requests.
IterateDone == pc = "iterate" /\ PassDone

\* The first batch of the running pass was requested and failed.
FirstBatchFailed == issued >= 1 /\ firstNext = <<>>

\* A step of an iteration pass that processes a batch after the first.
LaterBatchStep == pc = "iterate" /\ k > 1 /\ issued' = issued + 1

\* C1: after an iteration pass of more than one batch, all of which succeeded
\* at the transport, the stored fingerprint is the one the first batch's
\* response returned.
C1_FingerprintSingleAdvance ==
    (IterateDone /\ Len(batches) > 1 /\ ~failed)
        => (firstNext # <<>> /\ StoredFP = firstNext[1])

\* Such a pass, whose last batch returned another fingerprint than the first.
C1_Witness ==
    /\ IterateDone /\ Len(batches) > 1 /\ ~failed
    /\ firstNext # <<>> /\ StoredFP = firstNext[1]
    /\ resp.fingerprint # firstNext[1]
    /\ StoredFP # fpAtStart

\* C2: when the first batch of an iteration pass fails at the transport, the
\* stored fingerprint at the end of the pass is the one stored when the pass
\* started.
C2_RollbackOnFirstBatchFailure ==
    (IterateDone /\ FirstBatchFailed) => StoredFP = fpAtStart

\* A pass whose first batch failed and whose last batch succeeded with
\* another fingerprint than the non-empty one the pass started from.
C2_Witness ==
    /\ IterateDone /\ FirstBatchFailed /\ Len(batches) > 1
    /\ ~resp.err /\ resp.fingerprint # fpAtStart
    /\ fpAtStart # EmptyFP /\ StoredFP = fpAtStart

\* C3 as stated: a batch after the first, whether it succeeds or fails, leaves
\* the stored fingerprint as it was immediately before the batch.
C3_LaterBatchNeverWrites ==
    [][LaterBatchStep => StoredFP' = StoredFP]_vars

\* C3 as amended: a batch after the first that succeeds leaves the stored
\* fingerprint as it was immediately before it (its returned fingerprint is
\* discarded); one that fails at the transport sets the stored fingerprint
\* back to the pass's starting fingerprint.
C3_LaterBatchWrites ==
    [][LaterBatchStep =>
          IF resp'.err THEN StoredFP' = fpAtStart ELSE StoredFP' = StoredFP]_vars

\* A batch after the first has succeeded, and the fingerprint it returned is
\* not the stored one.
C3_Witness ==
    /\ pc = "iterate" /\ issued >= 2
    /\ ~resp.err /\ resp.fingerprint # StoredFP
    /\ firstNext # <<>> /\ StoredFP = firstNext[1]

\* C4: when any batch of an iteration pass fails at the transport, the stored
\* fingerprint at the end of the pass is the pass's starting fingerprint.
C4_RestoreOnAnyFailure ==
    (IterateDone /\ failed) => StoredFP = fpAtStart

\* A pass of three batches or more: the first succeeded with a new
\* fingerprint, a later one failed, the last succeeded.
C4_Witness ==
    /\ IterateDone /\ failed /\ Len(batches) >= 3
    /\ firstNext # <<>> /\ firstNext[1] # fpAtStart
    /\ ~resp.err
    /\ StoredFP = fpAtStart

\* C5: ForceIterateIndexOptions changes neither the stored fingerprints nor
\* the reset deadline, and every request it makes carries the empty
\* fingerprint, whatever fingerprint is stored.
C5_ForcedBypass ==
    [][(pc = "force" \/ pc' = "force") =>
          /\ UNCHANGED fingerprintState
          /\ (issued' = issued + 1 => req'.fingerprint = EmptyFP)]_vars

\* A forced batch was requested with the empty fingerprint while a non-empty
\* one was stored, and the fingerprint it returned was not stored.
C5_Witness ==
    /\ pc = "force" /\ issued >= 1
    /\ StoredFP # EmptyFP /\ req.fingerprint = EmptyFP
    /\ ~resp.err /\ resp.fingerprint # StoredFP

\* The number of callbacks invoked for repository id.
CallsFor(id) == Cardinality({j \in 1..Len(called) : called[j].id = id})

\* The number of times id is requested.
RequestsFor(id) == Cardinality({i \in 1..Len(req.repos) : req.repos[i] = id})

\* C6 as stated: for every repository ID of a ForceIterateIndexOptions request,
\* whatever the response, one callback (onSuccess or onError) is invoked,
\* exactly once.
C6_ExactlyOneCallback ==
    req.by = "force" =>
        \A i \in 1..Len(req.repos) : CallsFor(req.repos[i]) = RequestsFor(req.repos[i])

\* C7: when the transport call of a batch of ForceIterateIndexOptions fails,
\* onError is invoked with the transport's error once for every ID of the
\* batch, in the order of the batch, onSuccess for none, and the pass goes on
\* with the next batch: every batch is requested before the pass ends.
C7_ForceBatchFailure ==
    pc = "force" =>
        /\ issued = k - 1
        /\ issued >= 1 => req.repos = batches[issued]
        /\ (issued >= 1 /\ resp.err) =>
              /\ Len(called) = Len(req.repos)
              /\ \A i \in 1..Len(called) :
                    called[i] = [fn |-> "onError", id |-> req.repos[i], err |-> "transport"]
        /\ PassDone => issued = Len(batches)

\* A batch of two IDs has failed, both were reported, and a batch remains.
C7_Witness ==
    /\ pc = "force" /\ issued >= 1 /\ resp.err
    /\ Len(req.repos) = 2 /\ Len(called) = 2
    /\ ~PassDone

\* C8: a transport failure of a batch does not end an iteration pass: every
\* batch is requested before the pass ends, and every item without error of a
\* successful batch is passed to the consumer.
C8_BatchIsolation ==
    pc = "iterate" =>
        /\ issued = k - 1
        /\ issued >= 1 => req.repos = batches[issued]
        /\ (issued >= 1 /\ ~resp.err) =>
              \A i \in 1..Len(resp.items) :
                  resp.items[i].Error = "" =>
                      \E j \in 1..Len(called) :
                          called[j] = [fn |-> "f", id |-> resp.items[i].RepoID, err |-> ""]
        /\ PassDone => issued = Len(batches)

\* A pass with a failed batch has ended, and its last batch delivered items.
C8_Witness ==
    /\ IterateDone /\ failed /\ Len(batches) >= 2
    /\ ~resp.err /\ called # <<>>

\* The number of items without error among the first i items of the response.
Rank(i) == Cardinality({j \in 1..i : resp.items[j].Error = ""})

\* C9: the consumer is invoked for the items of a response without error, in
\* their order, and for no item with an error.
C9_PerRepositoryIsolation ==
    (req.by = "iterate" /\ ~resp.err) =>
        /\ Len(called) = Rank(Len(resp.items))
        /\ \A i \in 1..Len(resp.items) :
              resp.items[i].Error = "" =>
                  called[Rank(i)] = [fn |-> "f", id |-> resp.items[i].RepoID, err |-> ""]

\* A response of the client's transport whose first item carries an error and
\* whose second does not: the consumer got the second only.
C9_Witness ==
    /\ req.by = "iterate" /\ req.transport # "fake" /\ ~resp.err
    /\ Len(resp.items) >= 2
    /\ resp.items[1].Error # "" /\ resp.items[2].Error = ""
    /\ Len(called) = 1 /\ called[1].id = resp.items[2].RepoID

\* C10: every batch request of an iteration pass carries the fingerprint that
\* was stored when the pass started.
C10_ConsistentFingerprint ==
    (pc = "iterate" /\ issued >= 1) => req.fingerprint = fpAtStart

\* The second or a later batch was requested with the starting fingerprint
\* after the first batch had replaced the stored one.
C10_Witness ==
    /\ pc = "iterate" /\ issued >= 2
    /\ StoredFP # fpAtStart
    /\ req.fingerprint = fpAtStart

\* C11 as stated: whatever the length n of indexed, the time to the next
\* reset, jitter included, is at least 5 minutes and at most
\* 5 minutes + 1.25 * (n * 1 minute / 500).
C11_JitterBound ==
    lastReset # <<>> =>
        /\ lastReset[1].next >= 5 * Minute
        /\ 4 * lastReset[1].next
              <= 20 * Minute + 5 * ((lastReset[1].indexed * Minute) \div ReposPerMinute)

\* C11 as amended: whatever the length n of indexed, the time to the next
\* reset, jitter included, is at least 5 minutes and less than
\* 1.25 * max(5 minutes, n * 1 minute / 500).
C11_JitterWithinQuarter ==
    lastReset # <<>> =>
        /\ lastReset[1].next >= 5 * Minute
        /\ 4 * lastReset[1].next
              < 5 * Max((lastReset[1].indexed * Minute) \div ReposPerMinute, 5 * Minute)

\* A reset for more indexed repositories than five minutes' worth, with the
\* largest jitter.
C11_Witness ==
    /\ lastReset # <<>>
    /\ lastReset[1].indexed > 5 * ReposPerMinute
    /\ 4 * lastReset[1].next + 4
          >= 5 * ((lastReset[1].indexed * Minute) \div ReposPerMinute)

\* A call of List returns its result.
ListReturns == pc = "idle" /\ now' = now /\ ret'.op = "List" /\ ~ret'.err

\* C12: a call of List that returns a result after the reset deadline has
\* passed clears the stored fingerprint and stores a deadline later than the
\* current time; no fingerprint is stored from then until the iteration pass
\* that follows requests its first batch, that pass starts from the empty
\* fingerprint, and every batch of a pass is requested with the fingerprint the
\* pass started from.
C12_ResetForcesFullPass ==
    [][/\ (ListReturns /\ now > configFingerprintReset) =>
             /\ configFingerprint' = EmptyFP
             /\ configFingerprintProto' = EmptyFP
             /\ configFingerprintReset' > now
             /\ lastReset' # <<>>
       /\ lastReset' # <<>> => StoredFP' = EmptyFP
       /\ (pc = "idle" /\ pc' = "iterate" /\ lastReset # <<>>) =>
             startingFingerPrint' = EmptyFP
       /\ (pc = "iterate" /\ pc' = "iterate") =>
             /\ startingFingerPrint' = startingFingerPrint
             /\ req'.fingerprint = startingFingerPrint]_vars

\* List has cleared a non-empty fingerprint after the deadline had passed, and
\* the pass of two batches or more that follows has started from the empty one.
C12_Witness ==
    /\ pc = "iterate" /\ issued = 0 /\ Len(batches) >= 2
    /\ lastReset # <<>> /\ lastReset[1].cleared # EmptyFP
    /\ startingFingerPrint = EmptyFP

\* The example of the specification: 25 000 IDs in batches of 10 000.
BatchedExample == batched(IDList(25000), DefaultBatchSize)

\* C14: with b the configured batch size, or 10 000 when it is 0, the j-th
\* request of an iteration pass or of ForceIterateIndexOptions carries the IDs
\* (j-1)*b+1 .. min(j*b, n) of the n IDs, in their order: between 1 and b of
\* them, exactly b unless it is the last; and the pass ends when every ID has
\* been requested.  25 000 IDs in batches of 10 000 are three batches of
\* 10 000, 10 000 and 5 000.
C14_BatchingComplete ==
    /\ (pc = "iterate" \/ pc = "force") =>
          LET b == IF BatchSize = 0 THEN 10000 ELSE BatchSize
              n == Len(repos)
          IN  /\ issued = k - 1
              /\ issued >= 1 =>
                    /\ req.repos = SubSeq(repos, (issued - 1) * b + 1, Min(issued * b, n))
                    /\ Len(req.repos) >= 1 /\ Len(req.repos) <= b
                    /\ issued * b < n => Len(req.repos) = b
              /\ PassDone <=> issued * b >= n
    /\ Len(BatchedExample) = 3
    /\ Len(BatchedExample[1]) = 10000 /\ BatchedExample[1][1] = 1
    /\ Len(BatchedExample[2]) = 10000 /\ BatchedExample[2][1] = 10001
    /\ Len(BatchedExample[3]) = 5000 /\ BatchedExample[3][1] = 20001
    /\ BatchedExample[3][5000] = 25000

\* A pass has ended whose IDs went out in a full batch of two and a last
\* batch of fewer.
C14_Witness ==
    /\ (pc = "iterate" \/ pc = "force") /\ PassDone
    /\ BatchSize = 2 /\ issued >= 2
    /\ Len(req.repos) < BatchSize
    /\ req.repos[Len(req.repos)] = repos[Len(repos)]

\* The item of a response that ForceIterateIndexOptions has a callback for.
Due(i) == resp.items[i].Error = "" \/ resp.items[i].RepoID > 0

\* The number of such items among the first i items of the response.
DueRank(i) == Cardinality({j \in 1..i : Due(j)})

\* C15: the requests of a pass go out in the order of the batches, one after
\* the callbacks of the one before; the callbacks for a response are invoked
\* in the order of its items, or, when the transport call of a forced batch
\* failed, in the order of the IDs of the batch.
C15_OrderedDelivery ==
    /\ (pc = "iterate" \/ pc = "force") =>
          /\ issued = k - 1
          /\ issued >= 1 => req.repos = batches[issued]
    /\ (pc = "iterate" /\ issued >= 1) =>
          /\ Len(called) = (IF resp.err THEN 0 ELSE Rank(Len(resp.items)))
          /\ \A i \in 1..Len(resp.items) :
                resp.items[i].Error = "" =>
                    /\ called[Rank(i)].fn = "f"
                    /\ called[Rank(i)].id = resp.items[i].RepoID
    /\ (pc = "force" /\ issued >= 1 /\ resp.err) =>
          /\ Len(called) = Len(req.repos)
          /\ \A i \in 1..Len(called) : called[i].id = req.repos[i]
    /\ (pc = "force" /\ issued >= 1 /\ ~resp.err) =>
          /\ Len(called) = DueRank(Len(resp.items))
          /\ \A i \in 1..Len(resp.items) :
                Due(i) =>
                    /\ called[DueRank(i)].id = resp.items[i].RepoID
                    /\ called[DueRank(i)].fn
                          = (IF resp.items[i].Error = "" THEN "onSuccess" ELSE "onError")

\* A forced batch whose response names a failed repository before a resolved
\* one: onError came first, onSuccess second, and a batch remains.
C15_Witness ==
    /\ pc = "force" /\ issued >= 1 /\ ~resp.err /\ ~PassDone
    /\ Len(resp.items) = 2
    /\ resp.items[1].Error # "" /\ resp.items[2].Error = ""
    /\ Len(called) = 2
    /\ called[1].fn = "onError" /\ called[2].fn = "onSuccess"

\* C16: List returns an error exactly when its listRepoIDs call failed, and
\* then no result; otherwise it returns a result.  An iteration pass returns
\* no error to its caller, whatever its batches and items did, and the
\* consumer is handed no item that carries an error.
C16_OnlyListingErrors ==
    [][/\ (pc = "idle" /\ now' = now /\ ret'.op = "List") =>
             /\ req'.by = "list"
             /\ ret'.err <=> resp'.err
             /\ ret'.err <=> ret'.result = <<>>
       /\ (pc = "iterate" /\ pc' = "idle") => ret' = [op |-> "IterateIndexOptions",
                                                       err |-> FALSE, result |-> <<>>]
       /\ pc' = "iterate" =>
             /\ ret' = NoReturn
             /\ \A j \in 1..Len(called') : called'[j].fn = "f" /\ called'[j].err = ""]_vars

\* An iteration pass with a failed batch has returned, without an error.
C16_Witness ==
    /\ pc = "idle" /\ ret.op = "IterateIndexOptions" /\ failed
    /\ ~ret.err

\* C19: the transport chosen at construction never changes, and every call
\* the client makes to the control plane (listRepoIDs in List, the requests of
\* an iteration pass and of ForceIterateIndexOptions, GetDocumentRanks,
\* UpdateIndexStatus) goes to that transport.
C19_TransportNeverMixed ==
    [][/\ useGRPC' = useGRPC
       /\ (pc' \in {"idle", "iterate", "force"} /\ req'.by # "none") =>
             req'.transport = (IF useGRPC THEN "GRPC" ELSE "REST")]_vars

\* The second batch of an iteration pass of a gRPC client went to gRPC, as
\* the first did.
C19_Witness ==
    /\ pc = "iterate" /\ useGRPC /\ grpcClient = "real"
    /\ issued >= 2 /\ req.by = "iterate" /\ req.transport = "GRPC"
    /\ firstNext # <<>> /\ configFingerprintProto = firstNext[1]
    /\ configFingerprintProto # EmptyFP

\* C20: the fingerprint field of the transport that is not selected is always
\* empty: a REST client never holds a proto fingerprint, a gRPC client never
\* holds a fingerprint string.
C20_ExclusiveRepresentations ==
    /\ useGRPC => configFingerprint = EmptyFP
    /\ ~useGRPC => configFingerprintProto = EmptyFP

\* A gRPC client whose iteration pass has returned holds a fingerprint in its
\* proto field and none in its string field.
C20_Witness ==
    /\ pc = "idle" /\ ret.op = "IterateIndexOptions"
    /\ useGRPC /\ configFingerprintProto # EmptyFP /\ configFingerprint = EmptyFP

\* The caller invokes the iteration callback of a result it holds.
CallbackInvoked == pc = "idle" /\ pc' = "iterate"

\* The caller holds r from an earlier call of List, and r's IDs tell it from
\* the result of the latest call.
HeldFromEarlier(r, ids) ==
    /\ r \in retained /\ ~r.latest /\ r.IDs = ids
    /\ \A q \in retained : q.latest => q.IDs # ids

\* C18 as stated: the pass of an iteration callback that was retained from an
\* earlier result and is invoked after a later call of List starts from the
\* fingerprint stored when the earlier result was built.
C18_StaleClosure ==
    [][CallbackInvoked =>
          \A r \in retained :
              HeldFromEarlier(r, repos') => startingFingerPrint' = r.built]_vars

\* C18 as amended: the pass of an iteration callback, retained or not, starts
\* from the fingerprint stored in the client when the callback is invoked, and
\* requests its batches with it.
C18_ClosureBuiltAtInvocation ==
    [][/\ CallbackInvoked =>
             /\ startingFingerPrint' = StoredFP
             /\ \E r \in retained : r.IDs = repos'
       /\ (pc = "iterate" /\ pc' = "iterate") => req'.fingerprint = fpAtStart]_vars

\* The pass of a result retained from an earlier call of List has requested a
\* batch with the fingerprint stored when it started, which is not the one
\* stored when the result was built.
C18_Witness ==
    /\ pc = "iterate" /\ issued >= 1
    /\ \E r \in retained : HeldFromEarlier(r, repos) /\ r.built # req.fingerprint
    /\ req.fingerprint = fpAtStart /\ fpAtStart # EmptyFP

\* An iteration pass has ended whose batches all succeeded, with no error in
\* any item.
CleanPassDone == IterateDone /\ issued >= 1 /\ ~failed /\ ~controlPlane.dirty

FieldsOf(id) ==
    IF peer.id = id
    THEN <<peer.configFingerprint, peer.configFingerprintProto, peer.configFingerprintReset>>
    ELSE fingerprintState

\* Instance id holds no fingerprint but one the control plane handed to it,
\* and no deadline but one its own List call set: a clock reading plus the
\* time to the next reset for the indexed list of its caller.
OwnFields(id) ==
    LET f == FieldsOf(id)
    IN  /\ f[1] \in {EmptyFP} \cup OwnFingerprints(id)
        /\ f[2] \in {EmptyFP} \cup OwnFingerprints(id)
        /\ \/ f[3] = 0
           \/ \E t \in {Minute + 6 * Minute * j : j \in 0..MaxClock} :
                 t <= now /\ f[3] = t + NextReset(OwnIndexed(id))

\* C17: of two client instances whose List, iteration and forced passes
\* interleave in any order, each holds only fingerprints handed to itself and a
\* deadline set by its own List call; a call or a turn of a pass on one
\* instance leaves every field of the other as it was and is a step the
\* instance could take alone; and the fingerprints and the deadline of an
\* instance change in its own steps only.
C17_IndependentInstances ==
    /\ [](\A id \in Instances : OwnFields(id))
    /\ [][/\ peer'.id = peer.id => (peer' = peer /\ Next)
          /\ \A id \in Instances :
                FieldsOf(id)' # FieldsOf(id) => (active = id /\ active' = id)]_vars

\* Both instances are in the middle of an iteration pass, each has stored a
\* fingerprint and set a deadline, and the two fingerprints and the two
\* deadlines differ.
C17_Witness ==
    /\ pc = "iterate" /\ peer.pc = "iterate"
    /\ issued >= 1 /\ peer.issued >= 1
    /\ \A id \in Instances :
          \/ FieldsOf(id)[1] \in OwnFingerprints(id)
          \/ FieldsOf(id)[2] \in OwnFingerprints(id)
    /\ FieldsOf(1)[3] # 0 /\ FieldsOf(2)[3] # 0
    /\ FieldsOf(1)[3] # FieldsOf(2)[3]

\* An iteration pass has ended that started from the empty fingerprint and
\* had no failure of the transport.
FullPassDone == IterateDone /\ issued >= 1 /\ fpAtStart = EmptyFP /\ ~failed

\* C21: with an unchanged configuration and a control plane that returns
\* every requested repository when no fingerprint is sent, a pass that starts
\* from the empty fingerprint and has no transport failure calls the consumer
\* for exactly the resolvable repositories of the ID list, the same ones as the
\* first such pass.
C21_IdempotentFullResync ==
    FullPassDone =>
        /\ controlPlane.got = Resolvable(controlPlane.config, repos)
        /\ controlPlane.full # <<>> /\ controlPlane.got = controlPlane.full[1]

\* A second full pass of two batches or more has ended, after a reset that
\* cleared a stored fingerprint, over a list with a repository that resolves
\* and one that does not.
C21_Witness ==
    /\ FullPassDone /\ Len(batches) >= 2
    /\ controlPlane.passes = 2
    /\ controlPlane.got # {}
    /\ \E i \in 1..Len(repos) : controlPlane.config[repos[i]] = "error"

\* The client was constructed with gRPC selected and no gRPC client.
NoopSelected == useGRPC /\ grpcClient = "noop"

\* C22: on a client with gRPC selected and no gRPC client supplied, List
\* returns an error and no result, every batch of ForceIterateIndexOptions
\* calls onError for each of its IDs and onSuccess for none, and every batch is
\* requested, GetDocumentRanks and UpdateIndexStatus return an error, and the
\* fingerprints and the reset deadline stay as constructed.
C22_NoopFailsEveryCall ==
    NoopSelected =>
        /\ ret.op = "List" => (ret.err /\ ret.result = <<>>)
        /\ ret.op \in {"GetDocumentRanks", "UpdateIndexStatus"} => ret.err
        /\ req.by \in {"list", "ranks", "status", "force"} => resp.err
        /\ req.by = "force" =>
              called = [i \in 1..Len(req.repos) |-> Call("onError", req.repos[i], "transport")]
        /\ (pc = "force" /\ PassDone) => issued = Len(batches)
        /\ results = {}
        /\ configFingerprint = EmptyFP /\ configFingerprintProto = EmptyFP
        /\ configFingerprintReset = 0

\* On such a client a forced pass of two batches or more has ended, the last
\* batch having called onError for each of its IDs.
C22_Witness ==
    /\ NoopSelected
    /\ pc = "force" /\ PassDone /\ Len(batches) >= 2
    /\ req.by = "force" /\ Len(called) >= 1
    /\ \A i \in 1..Len(called) : called[i].fn = "onError"

\* C23: on a total miss GetDocumentRanks returns the empty ranking and no
\* error: the test double when the repository has no ranking file, and
\* sourcegraphNop always.
C23_EmptyRanksOnTotalMiss ==
    /\ (req.by = "ranks" /\ req.transport = "fake" /\ resp.err) =>
          (~ret.err /\ ret.result = <<EmptyRanks>>)
    /\ (pc = "nop" /\ ret.op = "GetDocumentRanks") =>
          (~ret.err /\ ret.result = <<EmptyRanks>>)

\* The last call on the test double was an iteration pass or a forced one.
FakeResolved == pc = "fake" /\ req.by \in {"iterate", "force"}

\* C24: the test double holds and sends no fingerprint; each of its iteration
\* passes and forced calls asks for all the IDs at once and gets one item for
\* every requested ID, whatever was called before, each resolved item being
\* handed to the consumer; and its UpdateIndexStatus returns no error and
\* changes nothing.
C24_FakeUsesNoFingerprint ==
    /\ [](pc = "fake" =>
            /\ configFingerprint = EmptyFP /\ configFingerprintProto = EmptyFP
            /\ configFingerprintReset = 0
            /\ req.fingerprint = EmptyFP /\ resp.fingerprint = EmptyFP
            /\ FakeResolved =>
                  /\ ~resp.err
                  /\ req.by = "iterate" => req.repos \in results
                  /\ Len(resp.items) = Len(req.repos)
                  /\ \A i \in 1..Len(resp.items) :
                        \/ resp.items[i].Error # ""
                        \/ resp.items[i].RepoID = req.repos[i]
                  /\ Len(called) >= Cardinality({i \in 1..Len(resp.items) :
                                                    resp.items[i].Error = ""}))
    /\ [][(pc = "fake" /\ ret'.op = "UpdateIndexStatus") =>
             /\ ~ret'.err
             /\ UNCHANGED <<client, fingerprintState, now, results, pc, repos, k,
                            closure>>]_vars

\* An iteration pass of the test double over two IDs or more has resolved
\* every one of them and called the consumer for each.
C24_Witness ==
    /\ FakeResolved /\ req.by = "iterate" /\ Len(req.repos) >= 2
    /\ \A i \in 1..Len(resp.items) : resp.items[i].Error = ""
    /\ Len(called) = Len(req.repos)

\* The ID of the test double's repository was derived from the checksum of
\* its name: it has no SG_ID file that parses.
Derived == controlPlane.id # <<>> /\ controlPlane.SG_ID.kind # "number"

\* C25: the ID the test double derives for a repository without a parseable
\* SG_ID file lies in 1 .. 2^31 - 1, so it is not the zero ID and fits a
\* positive signed 32-bit integer, and id - 1 leaves the same remainder as the
\* checksum of the name when divided by 2^31 - 1; with a parseable SG_ID file
\* the ID is the number in the file.
C25_FakeIDRange ==
    /\ Derived =>
          LET id == controlPlane.id[1]
              c == controlPlane.crc
              top == c[1] \div 32768
              low == (c[1] % 32768) * 65536 + c[2]
          IN  /\ id \in 1..2147483647
              /\ (id - 1 - low - top) % 2147483647 = 0
    /\ (controlPlane.id # <<>> /\ controlPlane.SG_ID.kind = "number") =>
          controlPlane.id[1] = controlPlane.SG_ID.value

\* The repository's name has the checksum 2^32 - 2, twice the modulus, and
\* its SG_ID file does not parse: the ID is 1.
C25_Witness ==
    /\ Derived
    /\ controlPlane.crc = <<65535, 65534>>
    /\ controlPlane.SG_ID.kind = "text"
    /\ controlPlane.id = <<1>>

\* The response to the last request has an item with an error.
ItemError == \E i \in 1..Len(resp.items) : resp.items[i].Error # ""

\* C26: when the first batch of an iteration pass succeeds at the transport
\* and has an item with an error, the fingerprint it returned is stored and
\* the consumer is called for the items without error only; and as long as no
\* batch of the pass fails, the stored fingerprint stays the first batch's.
C26_ItemErrorsKeepFingerprint ==
    /\ (pc = "iterate" /\ issued = 1 /\ ~resp.err /\ ItemError) =>
          /\ StoredFP = resp.fingerprint
          /\ Len(called) = Cardinality({i \in 1..Len(resp.items) :
                                           resp.items[i].Error = ""})
          /\ \A j \in 1..Len(called) :
                \E i \in 1..Len(resp.items) :
                    resp.items[i].Error = "" /\ called[j].id = resp.items[i].RepoID
    /\ (pc = "iterate" /\ issued >= 1 /\ ~failed) =>
          (firstNext # <<>> /\ StoredFP = firstNext[1])

\* The scenario: the batch [1, 2] of a pass with batches of two returned the
\* options of 1 and an error for 2 with fingerprint 1; the consumer was called
\* for 1 and the stored fingerprint is 1.
C26_Witness ==
    /\ pc = "iterate" /\ issued = 1 /\ BatchSize = 2 /\ Len(repos) >= 3
    /\ req.repos = <<1, 2>> /\ ~resp.err
    /\ resp.items = <<[RepoID |-> 1, Error |-> ""], [RepoID |-> 2, Error |-> "err"]>>
    /\ resp.fingerprint = 1
    /\ called = <<Call("f", 1, "")>>
    /\ StoredFP = 1 /\ fpAtStart = EmptyFP

\* The step is a call of List on the client.
ListCalled == pc = "idle" /\ pc' = "idle" /\ now' = now /\ req'.by = "list"

\* C27: a call of List at or before the stored deadline leaves the
\* fingerprints and the deadline as they are; a call that resets sets the
\* deadline five minutes or more ahead, so that no call within five minutes
\* resets again; and the pass that follows starts from the fingerprint that is
\* stored, which is the one the pass before has left.
C27_NoResetBeforeDeadline ==
    [][/\ (ListCalled /\ now <= configFingerprintReset) =>
             UNCHANGED <<configFingerprint, configFingerprintProto,
                         configFingerprintReset>>
       /\ (ListCalled /\ configFingerprintReset' # configFingerprintReset) =>
             configFingerprintReset' >= now + 5 * Minute
       /\ (pc = "idle" /\ pc' = "iterate") =>
             /\ startingFingerPrint' = StoredFP
             /\ UNCHANGED <<configFingerprint, configFingerprintProto,
                            configFingerprintReset>>]_vars

\* Six minutes after the reset and before the deadline, List has returned a
\* result and has left the fingerprint stored that a pass had put there.
C27_Witness ==
    /\ pc = "idle" /\ ret.op = "List" /\ ~ret.err /\ req.by = "list"
    /\ lastReset = <<>>
    /\ StoredFP # EmptyFP
    /\ now > Minute /\ now <= configFingerprintReset

\* C28: each fingerprint field of the client is empty or holds a fingerprint
\* that was returned for the first batch of a pass, never one that was
\* returned for a later batch, and so does the fingerprint a running pass
\* started from; during a pass the stored fingerprint is the one the pass
\* started from or the one its first batch returned.
C28_OnlyFirstBatchFingerprints ==
    /\ configFingerprint \in {EmptyFP} \cup FirstFingerprints
    /\ configFingerprintProto \in {EmptyFP} \cup FirstFingerprints
    /\ startingFingerPrint \in {EmptyFP} \cup FirstFingerprints
    /\ pc = "iterate" =>
          StoredFP \in {fpAtStart} \cup {firstNext[i] : i \in 1..Len(firstNext)}

\* A pass that started from a first-batch fingerprint holds a first-batch
\* fingerprint after a later batch has returned one, which was not stored.
C28_Witness ==
    /\ pc = "iterate" /\ issued >= 2 /\ ~resp.err
    /\ resp.fingerprint \in LaterFingerprints
    /\ fpAtStart \in FirstFingerprints
    /\ StoredFP \in FirstFingerprints
    /\ StoredFP # resp.fingerprint

\* C29: a call of List whose listing of the IDs fails returns an error and no
\* result, hands out no result, and leaves the fingerprints and the reset
\* deadline as they are, whether the deadline has passed or not.
C29_FailedListingChangesNothing ==
    [][(ListCalled /\ resp'.err) =>
          /\ ret'.op = "List" /\ ret'.err /\ ret'.result = <<>>
          /\ UNCHANGED <<configFingerprint, configFingerprintProto,
                         configFingerprintReset, results, lastReset>>]_vars

\* List has failed after the deadline had passed, and the fingerprint a pass
\* had stored is still there.
C29_Witness ==
    /\ pc = "idle" /\ req.by = "list" /\ resp.err
    /\ ret.op = "List" /\ ret.err
    /\ now > configFingerprintReset
    /\ configFingerprintReset > 0
    /\ StoredFP # EmptyFP

\* The running pass is the first of the client that requests a batch.
FirstPass ==
    /\ pc = "iterate"
    /\ \/ controlPlane.passes = 0
       \/ controlPlane.passes = 1 /\ issued >= 1

\* C30: until List has returned a result the client holds the zero deadline
\* and no fingerprint; the first call of List that returns a result finds the
\* deadline passed and resets; and the first pass that requests a batch starts
\* from the empty fingerprint and requests every batch with it.
C30_FirstPassIsFull ==
    /\ [](results = {} =>
            /\ configFingerprintReset = 0
            /\ configFingerprint = EmptyFP /\ configFingerprintProto = EmptyFP)
    /\ [](FirstPass =>
            /\ fpAtStart = EmptyFP /\ startingFingerPrint = EmptyFP
            /\ issued >= 1 => req.fingerprint = EmptyFP)
    /\ [][(ListCalled /\ ~resp'.err /\ results = {}) =>
             /\ now > configFingerprintReset
             /\ configFingerprintReset' >= now + 5 * Minute
             /\ lastReset' # <<>>]_vars

\* The first pass of a client has requested its second batch with the empty
\* fingerprint, its first batch having stored one.
C30_Witness ==
    /\ FirstPass /\ issued >= 2
    /\ req.fingerprint = EmptyFP
    /\ StoredFP # EmptyFP
    /\ configFingerprintReset > 0

\* ------------------------------------------------------- passes that end
\* The loops of iterate and ForceIterateIndexOptions under their scheduling:
\* each runs in the goroutine of its caller, one statement after the other,
\* and a transport call returns (with an error when its context ends), so a
\* turn of a loop that can be taken is taken, and so is the return.
InitPass ==
    /\ InitProgram
    /\ pc = "idle"
    /\ retained = {}
    /\ controlPlane = NoPlane
    /\ peer = <<>>

\* List with nothing indexed and no jitter.
PassList ==
    /\ pc = "idle"
    /\ \E lr \in ListResponses : ListCall(lr, 0, 0)
    /\ UNCHANGED aside

\* One turn of iterate's loop: the batch fails or every ID is resolved.
PassBatch ==
    /\ pc = "iterate"
    /\ k <= Len(batches)
    /\ \E r \in PlainResponses(batches[k]) : iterateBatch(r)
    /\ UNCHANGED aside

\* One turn of ForceIterateIndexOptions' loop.
PassForceBatch ==
    /\ pc = "force"
    /\ k <= Len(batches)
    /\ \E r \in PlainResponses(batches[k]) : forceBatch(r)
    /\ UNCHANGED aside

NextPass ==
    \/ PassList
    \/ IterateStart
    \/ PassBatch
    \/ IterateReturn
    \/ ForceStart
    \/ PassForceBatch
    \/ ForceReturn

SpecPass ==
    /\ InitPass
    /\ [][NextPass]_vars
    /\ WF_vars(PassBatch) /\ WF_vars(IterateReturn)
    /\ WF_vars(PassForceBatch) /\ WF_vars(ForceReturn)

\* A pass of iterate or a call of ForceIterateIndexOptions is running.
InPass == pc \in {"iterate", "force"}

\* c is the least number of batches of size elements that hold n elements.
IsCeil(c, n, size) ==
    /\ c * size >= n
    /\ c > 0 => (c - 1) * size < n

\* C31: a pass of iterate and a call of ForceIterateIndexOptions end, and
\* request each batch once, in order, whether batches fail or not: after j
\* turns of the loop j requests were made, the last one for batch j, and
\* when the loop is over ceil(n / batchSize) requests were made, none for an
\* empty ID list.
C31_OneCallPerBatch ==
    /\ [](InPass =>
            /\ issued = k - 1
            /\ issued >= 1 => req.repos = batches[issued]
            /\ PassDone => IsCeil(issued, Len(repos), batchSize)
            /\ (PassDone /\ repos = <<>>) => issued = 0)
    /\ [][(InPass /\ pc' = pc) => (issued' = issued + 1 /\ k' = k + 1)]_vars
    /\ (InPass ~> pc = "idle")

\* A pass of three batches is over whose first batch failed and whose last
\* did not: three requests were made.
C31_Witness ==
    /\ InPass /\ PassDone
    /\ Len(batches) = Len(repos) /\ Len(repos) >= 3
    /\ issued = Len(repos)
    /\ failed /\ ~resp.err

\* ------------------------------------------- the test double's GetIndexOptions
\* The directories the test double scans, an SG_ID file allowing the ID 0.
DisksWithZero == [0..MaxIDs -> {"absent", "ok", "broken"}]

\* The requests: up to MaxIDs IDs in any order, repeated or not.
Requests == UNION {[1..n -> 0..MaxIDs] : n \in 0..MaxIDs}

InitFakeOptions ==
    /\ InitProgram /\ pc = "fake" /\ retained = {} /\ peer = <<>>
    /\ controlPlane \in [disk : DisksWithZero, repos : Requests,
                          items : {<<>>}, done : {FALSE}]

\* sourcegraphFake.GetIndexOptions(repos...)
FakeGetIndexOptionsCall ==
    /\ pc = "fake" /\ ~controlPlane.done
    /\ controlPlane' =
          [controlPlane EXCEPT
              !.items = FakeGetIndexOptions(controlPlane.disk, controlPlane.repos),
              !.done = TRUE]
    /\ UNCHANGED <<client, fingerprintState, now, results, pc, repos, k, closure,
                   history, lastReset, ret, retained, peer>>

NextFakeOptions == FakeGetIndexOptionsCall

SpecFakeOptions == InitFakeOptions /\ [][NextFakeOptions]_vars

\* The directory cp.disk with the repository of ID id resolving, were it there.
Repaired(disk, id) == [disk EXCEPT ![id] = "ok"]

\* C32: the test double's GetIndexOptions returns one item per position of
\* the request; the item of an ID that no scanned repository has carries the
\* error "not found"; a repository whose options do not resolve gets an item
\* with an error at its position, and the items of the other IDs are what
\* they are when it resolves; a repository that resolves gets its options at
\* its position.
C32_FakeItemsByPosition ==
    controlPlane.done =>
        LET disk == controlPlane.disk
            rs == controlPlane.repos
            items == controlPlane.items
        IN  /\ Len(items) = Len(rs)
            /\ \A i \in 1..Len(rs) :
                  /\ disk[rs[i]] = "absent" =>
                        items[i] = [RepoID |-> 0, Error |-> "not found"]
                  /\ disk[rs[i]] = "broken" =>
                        /\ items[i].Error # ""
                        /\ \A j \in 1..Len(rs) :
                              rs[j] # rs[i] =>
                                 items[j] = FakeGetIndexOptions(Repaired(disk, rs[i]), rs)[j]
                  /\ (disk[rs[i]] = "ok" /\ rs[i] # 0 /\ reposIdx(rs, rs[i]) = i) =>
                        items[i] = [RepoID |-> rs[i], Error |-> ""]

\* A request of three IDs was answered: the first has no repository, the
\* second one that does not resolve, the third one that does.
C32_Witness ==
    /\ controlPlane.done
    /\ Len(controlPlane.repos) = 3
    /\ controlPlane.disk[controlPlane.repos[1]] = "absent"
    /\ controlPlane.disk[controlPlane.repos[2]] = "broken"
    /\ controlPlane.items[1].Error = "not found"
    /\ controlPlane.items[2].Error = "err"
    /\ controlPlane.items[3] = [RepoID |-> controlPlane.repos[3], Error |-> ""]

\* ------------------------------------------------------------ FlushReason
\* The constants FlushReasonTimerExpired, FlushReasonFinalFlush and
\* FlushReasonMaxSize, and the enum values of v1.FlushReason, are declared in
\* other files: each switch below compiles only when its case constants
\* differ, and the numbers of an enum of the wire format differ, so the
\* names stand for any distinct numbers.  controlPlane.go holds the numbers
\* of the three reasons, controlPlane.wire those of UNKNOWN and of the three
\* wire values.
MaxReason == 4

ReasonValues == 0..MaxReason

ReasonNames == {"TimerExpired", "FinalFlush", "MaxSize"}

WireNames == {"UNKNOWN", "TIMER_EXPIRED", "FINAL_FLUSH", "MAX_SIZE"}

GoEnums ==
    {f \in [ReasonNames -> ReasonValues] : \A i, j \in ReasonNames : i # j => f[i] # f[j]}

WireEnums ==
    {f \in [WireNames -> ReasonValues] : \A i, j \in WireNames : i # j => f[i] # f[j]}

\* Mutant: final flush and max size are sent as each other.
FlushReasonToProtoSwapped(fr) ==
    LET go == controlPlane.go
        wire == controlPlane.wire
    IN  CASE fr = go["TimerExpired"] -> wire["TIMER_EXPIRED"]
          [] fr = go["FinalFlush"] -> wire["MAX_SIZE"]
          [] fr = go["MaxSize"] -> wire["FINAL_FLUSH"]
          [] OTHER -> wire["UNKNOWN"]

\* func (fr FlushReason) ToProto() v1.FlushReason
FlushReasonToProto(fr) ==
    LET go == controlPlane.go
        wire == controlPlane.wire
    IN  CASE fr = go["TimerExpired"] -> wire["TIMER_EXPIRED"]
          [] fr = go["FinalFlush"] -> wire["FINAL_FLUSH"]
          [] fr = go["MaxSize"] -> wire["MAX_SIZE"]
          [] OTHER -> wire["UNKNOWN"]

\* func FlushReasonFromProto(p v1.FlushReason) FlushReason
FlushReasonFromProto(p) ==
    LET go == controlPlane.go
        wire == controlPlane.wire
    IN  CASE p = wire["TIMER_EXPIRED"] -> go["TimerExpired"]
          [] p = wire["FINAL_FLUSH"] -> go["FinalFlush"]
          [] p = wire["MAX_SIZE"] -> go["MaxSize"]
          [] OTHER -> 0

\* func (fr FlushReason) Generate: n is rand.Int() % 4.
FlushReasonGenerate(n) ==
    LET go == controlPlane.go
    IN  CASE n = 1 -> go["MaxSize"]
          [] n = 2 -> go["FinalFlush"]
          [] n = 3 -> go["TimerExpired"]
          [] OTHER -> 0

\* in is a reason and, read as a wire value, the input of FlushReasonFromProto.
InitFlushReason ==
    /\ InitProgram /\ pc = "idle" /\ useGRPC /\ grpcClient = "real" /\ BatchSize = 0
    /\ retained = {} /\ peer = <<>>
    /\ controlPlane \in [go : GoEnums, wire : WireEnums, in : ReasonValues,
                          toProto : {0}, back : {0}, fromProto : {0}, done : {FALSE}]

\* fr.ToProto(), FlushReasonFromProto of it, and FlushReasonFromProto(in).
FlushReasonRoundTrip ==
    /\ ~controlPlane.done
    /\ controlPlane' =
          [controlPlane EXCEPT
              !.toProto = FlushReasonToProto(controlPlane.in),
              !.back = FlushReasonFromProto(FlushReasonToProto(controlPlane.in)),
              !.fromProto = FlushReasonFromProto(controlPlane.in),
              !.done = TRUE]
    /\ UNCHANGED <<client, fingerprintState, now, results, pc, repos, k, closure,
                   history, lastReset, ret, retained, peer>>

NextFlushReason == FlushReasonRoundTrip

SpecFlushReason == InitFlushReason /\ [][NextFlushReason]_vars

\* What Generate yields.
ValidReasons == {FlushReasonGenerate(n) : n \in 0..3}

NamedReasons == {controlPlane.go[n] : n \in ReasonNames}

NamedWire == {controlPlane.wire[n] : n \in WireNames \ {"UNKNOWN"}}

\* C35: a reason that Generate yields (timer expired, final flush, max size
\* or zero) comes back from FlushReasonFromProto(fr.ToProto()) as it was; the
\* three named reasons are sent as three different wire values; every other
\* reason is sent as UNKNOWN, and every other wire value is read as zero.
C35_FlushReasonRoundTrip ==
    controlPlane.done =>
        /\ controlPlane.in \in ValidReasons => controlPlane.back = controlPlane.in
        /\ Cardinality({FlushReasonToProto(fr) : fr \in NamedReasons}) = 3
        /\ controlPlane.in \notin NamedReasons =>
              /\ controlPlane.toProto = controlPlane.wire["UNKNOWN"]
              /\ controlPlane.back = 0
        /\ controlPlane.in \notin NamedWire => controlPlane.fromProto = 0

\* Max size, whose number on the wire differs from its number in the
\* program, has come back from the wire.
C35_Witness ==
    /\ controlPlane.done
    /\ controlPlane.in = controlPlane.go["MaxSize"]
    /\ controlPlane.toProto = controlPlane.wire["MAX_SIZE"]
    /\ controlPlane.toProto # controlPlane.in
    /\ controlPlane.back = controlPlane.in

\* ------------------------------------------------------- the wire forms
\* The wire form of a value has the fields of its message, written here in
\* lower case; a value of the program has those of its struct.  A pointer is
\* <<>> when nil and <<v>> when it points to v.
MaxEntries == 2

\* func (m *MinimalRepoListEntry) ToProto() *v1.MinimalRepoListEntry, with
\* func (r *RepositoryBranch) ToProto() *v1.RepositoryBranch for each branch.
MinimalRepoListEntryToProto(m) ==
    LET RepositoryBranchToProto(r) == [name |-> r.Name, version |-> r.Version]
    IN  [has_symbols |-> m.HasSymbols,
         branches |-> [i \in 1..Len(m.Branches) |-> RepositoryBranchToProto(m.Branches[i])]]

\* func MinimalRepoListEntryFromProto(p *v1.MinimalRepoListEntry)
\* MinimalRepoListEntry, with RepositoryBranchFromProto for each branch.
MinimalRepoListEntryFromProto(p) ==
    LET RepositoryBranchFromProto(b) == [Name |-> b.name, Version |-> b.version]
    IN  [HasSymbols |-> p.has_symbols,
         Branches |-> [i \in 1..Len(p.branches) |-> RepositoryBranchFromProto(p.branches[i])]]

\* func (s *RepoStats) ToProto() *v1.RepoStats, on the counters Repos and
\* Shards (the other six fields are copied in the same way).
RepoStatsToProto(st) == [repos |-> st.Repos, shards |-> st.Shards]

\* func RepoStatsFromProto(p *v1.RepoStats) RepoStats
RepoStatsFromProto(p) == [Repos |-> p.repos, Shards |-> p.shards]

\* func (r *RepoListEntry) ToProto() *v1.RepoListEntry, on the name of the
\* Repository and the Stats.
RepoListEntryToProto(e) ==
    [repository |-> e.Repository, stats |-> RepoStatsToProto(e.Stats)]

\* func RepoListEntryFromProto(p *v1.RepoListEntry) *RepoListEntry
RepoListEntryFromProto(p) ==
    [Repository |-> p.repository, Stats |-> RepoStatsFromProto(p.stats)]

\* func (r *RepoList) ToProto() *v1.ListResponse: the entries are converted
\* into repos (lines 614-617), and the message is built with
\* Repos: []*v1.RepoListEntry{} (line 630).
RepoListToProto(r) ==
    LET converted == [i \in 1..Len(r.Repos) |-> RepoListEntryToProto(r.Repos[i])]
    IN  [repos |-> <<>>,
         repos_map |-> [id \in DOMAIN r.ReposMap |->
                           MinimalRepoListEntryToProto(r.ReposMap[id])],
         crashes |-> r.Crashes,
         stats |-> RepoStatsToProto(r.Stats),
         minimal |-> [id \in DOMAIN r.Minimal |->
                         MinimalRepoListEntryToProto(r.Minimal[id])]]

\* func RepoListFromProto(p *v1.ListResponse) *RepoList
RepoListFromProto(p) ==
    [Repos |-> [i \in 1..Len(p.repos) |-> RepoListEntryFromProto(p.repos[i])],
     ReposMap |-> [id \in DOMAIN p.repos_map |->
                      MinimalRepoListEntryFromProto(p.repos_map[id])],
     Crashes |-> p.crashes,
     Stats |-> RepoStatsFromProto(p.stats),
     Minimal |-> [id \in DOMAIN p.minimal |->
                     MinimalRepoListEntryFromProto(p.minimal[id])]]

\* The RepoLists: up to MaxEntries entries, and maps of the IDs 1..MaxEntries.
RepoLists ==
    LET RepoStatsValues == {[Repos |-> n, Shards |-> n + 1] : n \in {0, 1}}
        RepoListEntries == {[Repository |-> "r", Stats |-> st] : st \in RepoStatsValues}
        MinimalRepoListEntries ==
            {[HasSymbols |-> FALSE, Branches |-> <<>>],
             [HasSymbols |-> TRUE,
              Branches |-> <<[Name |-> "HEAD", Version |-> "v1"],
                             [Name |-> "dev", Version |-> "v2"]>>]}
        MinimalMaps ==
            UNION {[ids -> MinimalRepoListEntries] : ids \in SUBSET (1..MaxEntries)}
    IN  [Repos : UNION {[1..n -> RepoListEntries] : n \in 0..MaxEntries},
         ReposMap : MinimalMaps,
         Crashes : {0, 1},
         Stats : RepoStatsValues,
         Minimal : MinimalMaps]

\* time.Second in nanoseconds, the unit of a time.Duration.
Second == 1000000000

\* func (s *SearchOptions) ToProto() *v1.SearchOptions.  durationpb.New(d)
\* holds the seconds and the nanoseconds of d.
SearchOptionsToProto(s) ==
    LET New(d) == [seconds |-> d \div Second, nanos |-> d % Second]
    IN  IF s = <<>> THEN <<>>
        ELSE <<[estimate_doc_count |-> s[1].EstimateDocCount,
                whole |-> s[1].Whole,
                shard_max_match_count |-> s[1].ShardMaxMatchCount,
                total_max_match_count |-> s[1].TotalMaxMatchCount,
                shard_repo_max_match_count |-> s[1].ShardRepoMaxMatchCount,
                max_wall_time |-> New(s[1].MaxWallTime),
                flush_wall_time |-> New(s[1].FlushWallTime),
                max_doc_display_count |-> s[1].MaxDocDisplayCount,
                num_context_lines |-> s[1].NumContextLines,
                chunk_matches |-> s[1].ChunkMatches,
                use_document_ranks |-> s[1].UseDocumentRanks,
                document_ranks_weight |-> s[1].DocumentRanksWeight,
                trace |-> s[1].Trace,
                debug_score |-> s[1].DebugScore,
                span_context |-> s[1].SpanContext]>>

\* func SearchOptionsFromProto(p *v1.SearchOptions) *SearchOptions: DebugScore
\* is not among the fields it sets, so it keeps the zero value.
SearchOptionsFromProto(p) ==
    LET AsDuration(x) == x.seconds * Second + x.nanos
    IN  IF p = <<>> THEN <<>>
        ELSE <<[EstimateDocCount |-> p[1].estimate_doc_count,
                Whole |-> p[1].whole,
                ShardMaxMatchCount |-> p[1].shard_max_match_count,
                TotalMaxMatchCount |-> p[1].total_max_match_count,
                ShardRepoMaxMatchCount |-> p[1].shard_repo_max_match_count,
                MaxWallTime |-> AsDuration(p[1].max_wall_time),
                FlushWallTime |-> AsDuration(p[1].flush_wall_time),
                MaxDocDisplayCount |-> p[1].max_doc_display_count,
                NumContextLines |-> p[1].num_context_lines,
                ChunkMatches |-> p[1].chunk_matches,
                UseDocumentRanks |-> p[1].use_document_ranks,
                DocumentRanksWeight |-> p[1].document_ranks_weight,
                Trace |-> p[1].trace,
                DebugScore |-> FALSE,
                SpanContext |-> p[1].span_context]>>

\* The *SearchOptions: nil, and options whose flags, limits, wall times and
\* span context (a set of pairs of key and value) vary.
SearchOptionsValues ==
    {<<>>} \cup
    {<<[EstimateDocCount |-> b, Whole |-> ~b,
        ShardMaxMatchCount |-> n, TotalMaxMatchCount |-> n + 1,
        ShardRepoMaxMatchCount |-> n + 2,
        MaxWallTime |-> d, FlushWallTime |-> d \div 3,
        MaxDocDisplayCount |-> n + 3, NumContextLines |-> n + 4,
        ChunkMatches |-> c, UseDocumentRanks |-> b, DocumentRanksWeight |-> n,
        Trace |-> t, DebugScore |-> g, SpanContext |-> sc]>> :
        b \in BOOLEAN, c \in BOOLEAN, t \in BOOLEAN, g \in BOOLEAN,
        n \in {0, 1}, d \in {0, Second + Second \div 2},
        sc \in {{}, {<<"traceparent", "v">>}}}

\* int32(id) of a uint32 id = <<hi, lo>>: the same 32 bits, read as a signed
\* number.
Int32(id) ==
    IF id[1] >= Half \div 2
    THEN (id[1] - Half) * Half + id[2]
    ELSE id[1] * Half + id[2]

\* Mutant: a negative wire value is read as 0.
Uint32Saturating(x) == IF x < 0 THEN <<0, 0>> ELSE <<x \div Half, x % Half>>

\* uint32(x) of an int32 x: the same 32 bits, read as an unsigned number; a
\* negative x is x + 2^32, whose upper half is 2^15 more than that of x + 2^31.
Uint32(x) ==
    LET MaxInt32 == (Half \div 2 - 1) * Half + (Half - 1)
        y == (x + MaxInt32) + 1
    IN  IF x < 0
        THEN <<Half \div 2 + y \div Half, y % Half>>
        ELSE <<x \div Half, x % Half>>

\* func (o *indexOptionsItem) ToProto() *proto.ZoektIndexOptions, on RepoID,
\* Name and Error.
indexOptionsItemToProto(o) ==
    [repo_id |-> Int32(o.RepoID), name |-> o.Name, error |-> o.Error]

\* func (o *indexOptionsItem) FromProto(x *proto.ZoektIndexOptions)
indexOptionsItemFromProto(x) ==
    [RepoID |-> Uint32(x.repo_id), Name |-> x.name, Error |-> x.error]

\* The IDs of a request: getIndexOptionsGRPC's repoIDs (lines 527-530) and
\* listRepoIDsGRPC's request.IndexedIds (lines 627-630).
requestIDs(ids) == [i \in 1..Len(ids) |-> Int32(ids[i])]

\* listRepoIDsGRPC's repoIDs, from response.RepoIds (lines 637-640).
responseIDs(ids) == [i \in 1..Len(ids) |-> Uint32(ids[i])]

\* The items and ID lists: IDs at the ends of the range and on both sides of
\* 2^31.
RepoIDInputs ==
    LET IDs == {0, 1, Half \div 2 - 1, Half \div 2, Half - 1} \X {0, 1, Half - 1}
    IN  {[RepoID |-> id, Name |-> "r", Error |-> e, indexed |-> <<id, o>>] :
            id \in IDs, e \in {"", "e"}, o \in {<<0, 0>>, <<Half - 1, Half - 1>>}}

\* controlPlane holds a value and, once it has been sent and read, what came
\* back.
InitWire ==
    /\ InitProgram /\ pc = "idle" /\ useGRPC /\ grpcClient = "real" /\ BatchSize = 0
    /\ retained = {} /\ peer = <<>>
    /\ \/ controlPlane \in [kind : {"RepoList"}, in : RepoLists, back : {<<>>}]
       \/ controlPlane \in [kind : {"SearchOptions"}, in : SearchOptionsValues, back : {<<>>}]
       \/ controlPlane \in [kind : {"RepoID"}, in : RepoIDInputs, back : {<<>>}]

\* RepoListFromProto(r.ToProto())
RepoListRoundTrip ==
    /\ controlPlane.kind = "RepoList" /\ controlPlane.back = <<>>
    /\ controlPlane' =
          [controlPlane EXCEPT
              !.back = <<RepoListFromProto(RepoListToProto(controlPlane.in))>>]
    /\ UNCHANGED <<client, fingerprintState, now, results, pc, repos, k, closure,
                   history, lastReset, ret, retained, peer>>

\* SearchOptionsFromProto(s.ToProto())
SearchOptionsRoundTrip ==
    /\ controlPlane.kind = "SearchOptions" /\ controlPlane.back = <<>>
    /\ controlPlane' =
          [controlPlane EXCEPT
              !.back = <<SearchOptionsFromProto(SearchOptionsToProto(controlPlane.in))>>]
    /\ UNCHANGED <<client, fingerprintState, now, results, pc, repos, k, closure,
                   history, lastReset, ret, retained, peer>>

\* An item is sent and read, and a list of IDs is sent to a control plane
\* that sends it back.
RepoIDRoundTrip ==
    /\ controlPlane.kind = "RepoID" /\ controlPlane.back = <<>>
    /\ controlPlane' =
          [controlPlane EXCEPT
              !.back =
                  <<[wire |-> indexOptionsItemToProto(controlPlane.in),
                     item |-> indexOptionsItemFromProto(
                                  indexOptionsItemToProto(controlPlane.in)),
                     request |-> requestIDs(controlPlane.in.indexed),
                     response |-> responseIDs(requestIDs(controlPlane.in.indexed))]>>]
    /\ UNCHANGED <<client, fingerprintState, now, results, pc, repos, k, closure,
                   history, lastReset, ret, retained, peer>>

NextWire ==
    \/ RepoListRoundTrip
    \/ SearchOptionsRoundTrip
    \/ RepoIDRoundTrip

SpecWire == InitWire /\ [][NextWire]_vars

\* A value of the given kind has come back.
Back(kind) == controlPlane.kind = kind /\ controlPlane.back # <<>>

\* C33 as stated: RepoListFromProto(r.ToProto()) has the Repos entries of r,
\* as many and in the same order, and its ReposMap, Minimal, Crashes and
\* Stats.
C33_RepoListRoundTrip ==
    Back("RepoList") =>
        LET r == controlPlane.in
            b == controlPlane.back[1]
        IN  /\ Len(b.Repos) = Len(r.Repos)
            /\ b.Repos = r.Repos
            /\ b.ReposMap = r.ReposMap
            /\ b.Minimal = r.Minimal
            /\ b.Crashes = r.Crashes
            /\ b.Stats = r.Stats

\* C34 as stated: for a SearchOptions s that is not nil,
\* SearchOptionsFromProto(s.ToProto()) has the value of s in every field that
\* ToProto writes, DebugScore, Trace, ChunkMatches and the limits of the match
\* counts among them; and nil comes back as nil.
C34_SearchOptionsRoundTrip ==
    Back("SearchOptions") =>
        LET s == controlPlane.in
            b == controlPlane.back[1]
        IN  /\ s = <<>> => (SearchOptionsToProto(s) = <<>> /\ b = <<>>)
            /\ s # <<>> =>
                  /\ b # <<>>
                  /\ b[1].DebugScore = s[1].DebugScore
                  /\ b[1].Trace = s[1].Trace
                  /\ b[1].ChunkMatches = s[1].ChunkMatches
                  /\ b[1].ShardMaxMatchCount = s[1].ShardMaxMatchCount
                  /\ b[1].TotalMaxMatchCount = s[1].TotalMaxMatchCount
                  /\ b[1].ShardRepoMaxMatchCount = s[1].ShardRepoMaxMatchCount
                  /\ b[1] = s[1]

\* C36: a repository ID comes back from the signed 32-bit field of the wire
\* as it was, whatever its value in 0 .. 2^32 - 1: in an item sent with
\* ToProto and read with FromProto, and in a list of IDs sent as
\* listRepoIDsGRPC and getIndexOptionsGRPC send it and read as
\* listRepoIDsGRPC reads it; the IDs from 2^31 on, and only those, are
\* negative on the wire.
C36_RepoIDRoundTrip ==
    Back("RepoID") =>
        LET o == controlPlane.in
            b == controlPlane.back[1]
        IN  /\ b.item.RepoID = o.RepoID
            /\ b.item.Error = o.Error
            /\ b.wire.repo_id < 0 <=> o.RepoID[1] >= Half \div 2
            /\ b.response = o.indexed
            /\ \A i \in 1..Len(o.indexed) :
                  b.request[i] < 0 <=> o.indexed[i][1] >= Half \div 2

\* The ID 2^32 - 1 was sent as -1 and has come back, in the item and in the
\* list.
C36_Witness ==
    /\ Back("RepoID")
    /\ controlPlane.in.RepoID = <<Half - 1, Half - 1>>
    /\ controlPlane.back[1].wire.repo_id = -1
    /\ controlPlane.back[1].item.RepoID = <<Half - 1, Half - 1>>
    /\ controlPlane.back[1].request[1] = -1
    /\ controlPlane.back[1].response[1] = <<Half - 1, Half - 1>>

=============================================================================
